---- MODULE Spec2Model ----
(***************************************************************************)
(* Chronos back-test engine (src/src/chronos): the portfolio ledger, the   *)
(* trade executor, the decision parser, the four personas' rule-based      *)
(* decisions and the simulator's day loop.                                 *)
(*                                                                         *)
(* Numbers.  The code computes in binary floating point; the model is in   *)
(* fixed point, with every division rounded down:                          *)
(*   - USD amounts in units of 1/10000 USD                                 *)
(*   - BTC quantities in units of 1/1000000 BTC                            *)
(*   - prices and average costs in USD units per BTC unit, which is        *)
(*     (USD per BTC) / 100: 1000 stands for 100,000 USD per BTC            *)
(*   - percentages (amount_pct, confidence, return_pct, change_pct,        *)
(*     fear & greed, RSI) as whole numbers                                 *)
(* With these units the code's formulas are written as they stand:         *)
(* quantity * price is an amount, amount / price is a quantity.            *)
(***************************************************************************)
EXTENDS Integers, Sequences, FiniteSets, TLC

VARIABLES
    entry,           \* the entry point called: "run" or "run_sync"
    use_ai,          \* SimulationConfig.use_ai
    price_data,      \* ChronosSimulator._price_data: date -> bar or NoBar
    history_bars,    \* number of bars of _price_data dated before start_date
    fear_greed,      \* FearGreedCache: date -> FearGreedHistoryItem or NoItem
    news,            \* NewsCache: date -> headlines
    tech_engine,     \* TechnicalAnalyzer's result for the bars up to a date
    pc,              \* position of the run
    current_date,    \* _run_simulation: current_date
    day_count,       \* _run_simulation: day_count
    idx,             \* position in the loop over self.personas
    context,         \* the MarketContext built for the persona in hand
    request,         \* the AI request in flight
    response,        \* the text the decision call returned
    decisions,       \* the day's decisions: persona -> TradeDecision
    portfolio_values,\* the day's values: persona -> total value
    portfolios,      \* ChronosSimulator.portfolios
    daily_results,   \* ChronosSimulator.daily_results
    stats,           \* ChronosSimulator.stats
    exc,             \* the exception that left the run, if any
    ledger_calls,    \* calls made on a portfolio used on its own
    returned         \* what a call made on the executor alone returned

vars == <<entry, use_ai, price_data, history_bars, fear_greed, news, tech_engine, pc,
          current_date, day_count, idx, context, request, response, decisions,
          portfolio_values, portfolios, daily_results, stats, exc, ledger_calls,
          returned>>

(***************************************************************************)
(* Bounds of the model.                                                    *)
(***************************************************************************)
MaxDays == 3          \* calendar dates in [start_date, end_date]
MaxAiReplies == 1     \* texts the AI backend delivers in one run
MaxAiErrors == 1      \* AI requests of one run that end in an exception
MaxOps == 3           \* ledger calls in a run of the ledger alone

(***************************************************************************)
(* Units and program constants.                                            *)
(***************************************************************************)
UsdUnits == 100 * 100                  \* model units in one USD
BtcUnits == 1000 * 1000                \* model units in one BTC
None == -1                             \* Python's None for an optional number
NoneStr == "None"                      \* Python's None for an optional string

initial_capital == 1000 * UsdUnits     \* SimulationConfig.initial_capital of the runs: 1,000 USD
MIN_BUY_USD == 10 * UsdUnits           \* execute: usd_amount < 10
MIN_SELL_BTC == BtcUnits \div 10000    \* execute: btc_quantity < 0.0001
RULE_MIN_USD == 100 * UsdUnits         \* personas: context.usd_balance > 100

(***************************************************************************)
(* Arithmetic that stays inside 32 bits.                                   *)
(***************************************************************************)
\* floor(x * pct / 100): x * (amount_pct / 100)
PctOf(x, pct) == (x \div 100) * pct + ((x % 100) * pct) \div 100

\* floor(100 * a / c) for c > 0: (a / c) * 100
Times100Div(a, c) ==
    LET q0 == a \div c
        r0 == a % c
        q1 == (r0 * 10) \div c
        r1 == (r0 * 10) % c
        q2 == (r1 * 10) \div c
    IN  q0 * 100 + q1 * 10 + q2

Clamp100(x) == IF x < 0 THEN 0 ELSE IF x > 100 THEN 100 ELSE x

(***************************************************************************)
(* portfolio.py: Position and Portfolio.                                   *)
(***************************************************************************)
\* an update that takes the latest price as the average cost of a purchase
Position_update_last_price(pos, quantity_delta, price) ==
    IF quantity_delta > 0
    THEN [quantity |-> pos.quantity + quantity_delta, avg_cost |-> price]
    ELSE LET q == pos.quantity + quantity_delta
         IN  IF q <= 0 THEN [quantity |-> 0, avg_cost |-> 0]
                       ELSE [quantity |-> q, avg_cost |-> pos.avg_cost]

\* an update that keeps the average cost of a position sold out
Position_update_sticky_cost(pos, quantity_delta, price) ==
    IF quantity_delta > 0
    THEN LET total_cost == pos.quantity * pos.avg_cost + quantity_delta * price
             q == pos.quantity + quantity_delta
         IN  [quantity |-> q,
              avg_cost |-> IF q > 0 THEN total_cost \div q ELSE pos.avg_cost]
    ELSE LET q == pos.quantity + quantity_delta
         IN  [quantity |-> IF q <= 0 THEN 0 ELSE q, avg_cost |-> pos.avg_cost]

\* Position.update
Position_update(pos, quantity_delta, price) ==
    IF quantity_delta > 0
    THEN LET total_cost == pos.quantity * pos.avg_cost + quantity_delta * price
             q == pos.quantity + quantity_delta
         IN  [quantity |-> q,
              avg_cost |-> IF q > 0 THEN total_cost \div q ELSE pos.avg_cost]
    ELSE LET q == pos.quantity + quantity_delta
         IN  IF q <= 0 THEN [quantity |-> 0, avg_cost |-> 0]
                       ELSE [quantity |-> q, avg_cost |-> pos.avg_cost]

\* Portfolio.__init__
NewPortfolio ==
    [usd_balance |-> initial_capital,
     btc_position |-> [quantity |-> 0, avg_cost |-> 0],
     trades |-> <<>>,
     snapshots |-> <<>>]

\* a valuation that forgets the position: cash alone
get_total_value_cash_only(pf, btc_price) == pf.usd_balance

\* Portfolio.get_total_value
get_total_value(pf, btc_price) ==
    pf.usd_balance + pf.btc_position.quantity * btc_price

\* Portfolio.get_return_pct
get_return_pct(pf, btc_price) ==
    Times100Div(get_total_value(pf, btc_price) - initial_capital, initial_capital)

TradeRecord(date, action, quantity, price, usd_amount, reason, value) ==
    [date |-> date, action |-> action, symbol |-> "BTC", quantity |-> quantity,
     price |-> price, usd_amount |-> usd_amount, reason |-> reason,
     portfolio_value_after |-> value]

\* a buy that refuses a request above the balance
Portfolio_buy_rejecting(pf, date, btc_price, usd_amount, reason) ==
    IF usd_amount > pf.usd_balance \/ usd_amount <= 0
    THEN [pf |-> pf, ok |-> FALSE]
    ELSE LET btc_quantity == usd_amount \div btc_price
             after == [pf EXCEPT
                 !.usd_balance = pf.usd_balance - usd_amount,
                 !.btc_position = Position_update(pf.btc_position, btc_quantity, btc_price)]
         IN  [pf |-> [after EXCEPT !.trades = Append(pf.trades,
                        TradeRecord(date, "BUY", btc_quantity, btc_price, usd_amount,
                                    reason, get_total_value(after, btc_price)))],
              ok |-> TRUE]

\* a buy that spends the requested amount without clamping it to the balance
Portfolio_buy_unclamped(pf, date, btc_price, usd_amount, reason) ==
    IF usd_amount <= 0
    THEN [pf |-> pf, ok |-> FALSE]
    ELSE LET btc_quantity == usd_amount \div btc_price
             after == [pf EXCEPT
                 !.usd_balance = pf.usd_balance - usd_amount,
                 !.btc_position = Position_update(pf.btc_position, btc_quantity, btc_price)]
         IN  [pf |-> [after EXCEPT !.trades = Append(pf.trades,
                        TradeRecord(date, "BUY", btc_quantity, btc_price, usd_amount,
                                    reason, get_total_value(after, btc_price)))],
              ok |-> TRUE]

\* Portfolio.buy: the new portfolio and the returned bool
Portfolio_buy(pf, date, btc_price, usd_amount, reason) ==
    LET amount == IF usd_amount > pf.usd_balance THEN pf.usd_balance ELSE usd_amount
    IN  IF amount <= 0
        THEN [pf |-> pf, ok |-> FALSE]
        ELSE LET btc_quantity == amount \div btc_price
                 after == [pf EXCEPT
                     !.usd_balance = pf.usd_balance - amount,
                     !.btc_position = Position_update(pf.btc_position, btc_quantity, btc_price)]
             IN  [pf |-> [after EXCEPT !.trades = Append(pf.trades,
                            TradeRecord(date, "BUY", btc_quantity, btc_price, amount,
                                        reason, get_total_value(after, btc_price)))],
                  ok |-> TRUE]

\* a sell that refuses a request above the position
Portfolio_sell_rejecting(pf, date, btc_price, btc_quantity, reason) ==
    IF btc_quantity > pf.btc_position.quantity \/ btc_quantity <= 0
    THEN [pf |-> pf, ok |-> FALSE]
    ELSE LET usd_amount == btc_quantity * btc_price
             after == [pf EXCEPT
                 !.usd_balance = pf.usd_balance + usd_amount,
                 !.btc_position = Position_update(pf.btc_position, -btc_quantity, btc_price)]
         IN  [pf |-> [after EXCEPT !.trades = Append(pf.trades,
                        TradeRecord(date, "SELL", btc_quantity, btc_price, usd_amount,
                                    reason, get_total_value(after, btc_price)))],
              ok |-> TRUE]

\* a sell that pays out the average cost of what is sold, not its price
Portfolio_sell_at_cost(pf, date, btc_price, btc_quantity, reason) ==
    LET qty == IF btc_quantity > pf.btc_position.quantity
               THEN pf.btc_position.quantity ELSE btc_quantity
    IN  IF qty <= 0
        THEN [pf |-> pf, ok |-> FALSE]
        ELSE LET usd_amount == qty * pf.btc_position.avg_cost
                 after == [pf EXCEPT
                     !.usd_balance = pf.usd_balance + usd_amount,
                     !.btc_position = Position_update(pf.btc_position, -qty, btc_price)]
             IN  [pf |-> [after EXCEPT !.trades = Append(pf.trades,
                            TradeRecord(date, "SELL", qty, btc_price, usd_amount,
                                        reason, get_total_value(after, btc_price)))],
                  ok |-> TRUE]

\* Portfolio.sell: the new portfolio and the returned bool
Portfolio_sell(pf, date, btc_price, btc_quantity, reason) ==
    LET qty == IF btc_quantity > pf.btc_position.quantity
               THEN pf.btc_position.quantity ELSE btc_quantity
    IN  IF qty <= 0
        THEN [pf |-> pf, ok |-> FALSE]
        ELSE LET usd_amount == qty * btc_price
                 after == [pf EXCEPT
                     !.usd_balance = pf.usd_balance + usd_amount,
                     !.btc_position = Position_update(pf.btc_position, -qty, btc_price)]
             IN  [pf |-> [after EXCEPT !.trades = Append(pf.trades,
                            TradeRecord(date, "SELL", qty, btc_price, usd_amount,
                                        reason, get_total_value(after, btc_price)))],
                  ok |-> TRUE]

\* a hold that leaves no record in the trade log
Portfolio_hold_silent(pf, date, btc_price, reason) == pf

\* Portfolio.hold
Portfolio_hold(pf, date, btc_price, reason) ==
    [pf EXCEPT !.trades = Append(pf.trades,
        TradeRecord(date, "HOLD", 0, btc_price, 0, reason,
                    get_total_value(pf, btc_price)))]

\* Portfolio.take_snapshot
Portfolio_take_snapshot(pf, date, btc_price) ==
    LET total_value == get_total_value(pf, btc_price)
        prev_value == IF pf.snapshots = <<>> THEN 0
                      ELSE pf.snapshots[Len(pf.snapshots)].total_value_usd
        daily_return == IF prev_value > 0
                        THEN Times100Div(total_value - prev_value, prev_value)
                        ELSE 0
    IN  [pf EXCEPT !.snapshots = Append(pf.snapshots,
            [date |-> date, usd_balance |-> pf.usd_balance,
             btc_quantity |-> pf.btc_position.quantity, btc_price |-> btc_price,
             total_value_usd |-> total_value, daily_return_pct |-> daily_return])]

(***************************************************************************)
(* Texts.  A decision text (an AI reply, or the JSON a persona's rule      *)
(* function dumps) is described by what re.search and json.loads find in   *)
(* it: whether the pattern \{[^{}]*"action"[^{}]*\} matches, what the      *)
(* matched group and the whole text decode to, and whether the lowercased  *)
(* text holds a buy or a sell word.  raw is the text itself.               *)
(***************************************************************************)
JNum(n)  == [t |-> "num", n |-> n, s |-> ""]
JStr(s)  == [t |-> "str", n |-> 0, s |-> s]
JNull    == [t |-> "null", n |-> 0, s |-> ""]
JTrue    == [t |-> "bool", n |-> 1, s |-> ""]
JList    == [t |-> "list", n |-> 0, s |-> ""]
JNaN     == [t |-> "nan", n |-> 0, s |-> ""]
JAbsent  == [t |-> "absent", n |-> 0, s |-> ""]

\* what json.loads gives: a dict, another JSON value, or JSONDecodeError
JDict(action, amount_pct, reason, confidence) ==
    [k |-> "dict", action |-> action, amount_pct |-> amount_pct,
     reason |-> reason, confidence |-> confidence]
JOther == [k |-> "other", action |-> JAbsent, amount_pct |-> JAbsent,
           reason |-> JAbsent, confidence |-> JAbsent]
JBad   == [k |-> "bad", action |-> JAbsent, amount_pct |-> JAbsent,
           reason |-> JAbsent, confidence |-> JAbsent]

Text(raw, found, group, whole, buy, sell) ==
    [raw |-> raw, found |-> found, group |-> group, whole |-> whole,
     buy |-> buy, sell |-> sell]

\* json.dumps of a persona's rule decision, as parse_decision reads it
RuleText(action, amount_pct, reason, confidence) ==
    LET d == JDict(JStr(action), JNum(amount_pct), JStr(reason), JNum(confidence))
    IN  Text(reason, TRUE, d, d, action = "BUY", action = "SELL")

(***************************************************************************)
(* trade.py: TradeDecision and TradeExecutor.                              *)
(***************************************************************************)
TradeAction == {"BUY", "SELL", "HOLD"}

TradeDecision(action, amount_pct, reason, confidence) ==
    [action |-> action, amount_pct |-> amount_pct, reason |-> reason,
     confidence |-> confidence]

NoDecision == TradeDecision("", 0, <<>>, 0)

\* str.upper on the action words of the model's texts
upper(s) ==
    CASE s \in {"buy", "Buy", "BUY"} -> "BUY"
      [] s \in {"sell", "Sell", "SELL"} -> "SELL"
      [] s \in {"hold", "Hold", "HOLD"} -> "HOLD"
      [] s \in {"long", "LONG"} -> "LONG"
      [] OTHER -> s

\* float(str): the numeric strings of the model's texts
NumericStr == {"50"}
float_of_str(s) == CASE s = "50" -> 50 [] OTHER -> 0

\* float(value): the number, or the exception float() raises
py_float(v) ==
    CASE v.t = "num"  -> [raised |-> "none", nan |-> FALSE, n |-> v.n]
      [] v.t = "bool" -> [raised |-> "none", nan |-> FALSE, n |-> v.n]
      [] v.t = "nan"  -> [raised |-> "none", nan |-> TRUE, n |-> 0]
      [] v.t = "str"  -> IF v.s \in NumericStr
                         THEN [raised |-> "none", nan |-> FALSE, n |-> float_of_str(v.s)]
                         ELSE [raised |-> "ValueError", nan |-> FALSE, n |-> 0]
      [] OTHER        -> [raised |-> "TypeError", nan |-> FALSE, n |-> 0]

\* max(0, min(100, x)): min(100, nan) is 100
clamp_0_100(f) == IF f.nan THEN 100 ELSE Clamp100(f.n)

\* a text of more than 200 characters: its first 200 and the rest
LongTextHead == "the market looks heavy today and the order book is thin on both sides; funding is flat, volume is fading into the weekend and nothing in the tape argues for adding risk here, so the plan is to stay pa"
LongTextTail == " and only then buy"
LongText == LongTextHead \o LongTextTail

\* ai_response[:200]; the other texts of the model are shorter
first200(raw) == IF raw = LongText THEN LongTextHead ELSE raw

\* the except branch of parse_decision
parse_fallback(text) ==
    LET action == IF text.buy THEN "BUY" ELSE IF text.sell THEN "SELL" ELSE "HOLD"
        amount_pct == IF text.buy \/ text.sell THEN 10 ELSE 0
    IN  [raised |-> "none",
         decision |-> TradeDecision(action, amount_pct,
                                    <<"[parse failed]", first200(text.raw)>>, 0)]

Raises(e) == [raised |-> e, decision |-> NoDecision]

\* TradeExecutor.parse_decision: the decision, or the exception that leaves it
parse_decision(text) ==
    LET data == IF text.found THEN text.group ELSE text.whole
        action_v == IF data.action.t = "absent" THEN JStr("HOLD") ELSE data.action
        action_str == upper(action_v.s)
        action == IF action_str \in TradeAction THEN action_str ELSE "HOLD"
        amount_f == py_float(IF data.amount_pct.t = "absent" THEN JNum(0)
                             ELSE data.amount_pct)
        reason == IF data.reason.t = "absent" THEN "no explanation"
                  ELSE IF data.reason.t = "str" THEN data.reason.s ELSE "str(value)"
        conf_f == py_float(IF data.confidence.t = "absent" THEN JNum(50)
                           ELSE data.confidence)
    IN  CASE data.k = "bad" -> parse_fallback(text)
          [] data.k = "other" -> Raises("AttributeError")
          [] data.k = "dict" /\ action_v.t # "str" -> Raises("AttributeError")
          [] data.k = "dict" /\ action_v.t = "str" ->
                CASE amount_f.raised = "TypeError" -> parse_fallback(text)
                  [] amount_f.raised = "ValueError" -> Raises("ValueError")
                  [] OTHER ->
                       CASE conf_f.raised = "TypeError" -> parse_fallback(text)
                         [] conf_f.raised = "ValueError" -> Raises("ValueError")
                         [] OTHER ->
                              [raised |-> "none",
                               decision |-> TradeDecision(action, clamp_0_100(amount_f),
                                                <<reason>>, clamp_0_100(conf_f))]

\* an executor without the two minimum checks: every BUY and SELL goes to
\* the portfolio as computed
execute_no_minimum(decision, pf, date, btc_price) ==
    CASE decision.action = "HOLD" ->
            [pf |-> Portfolio_hold(pf, date, btc_price, decision.reason), ok |-> TRUE]
      [] decision.action = "BUY" ->
            Portfolio_buy(pf, date, btc_price,
                          PctOf(pf.usd_balance, decision.amount_pct), decision.reason)
      [] decision.action = "SELL" ->
            Portfolio_sell(pf, date, btc_price,
                           PctOf(pf.btc_position.quantity, decision.amount_pct),
                           decision.reason)
      [] OTHER -> [pf |-> pf, ok |-> FALSE]

\* an executor that sizes a buy as a percentage of the total value
execute_pct_of_value(decision, pf, date, btc_price) ==
    CASE decision.action = "HOLD" ->
            [pf |-> Portfolio_hold(pf, date, btc_price, decision.reason), ok |-> TRUE]
      [] decision.action = "BUY" ->
            LET usd_amount == PctOf(get_total_value(pf, btc_price), decision.amount_pct)
            IN  IF usd_amount < MIN_BUY_USD
                THEN [pf |-> Portfolio_hold(pf, date, btc_price,
                                <<"[buy amount too small]">> \o decision.reason),
                      ok |-> TRUE]
                ELSE Portfolio_buy(pf, date, btc_price, usd_amount, decision.reason)
      [] decision.action = "SELL" ->
            LET btc_quantity == PctOf(pf.btc_position.quantity, decision.amount_pct)
            IN  IF btc_quantity < MIN_SELL_BTC
                THEN [pf |-> Portfolio_hold(pf, date, btc_price,
                                <<"[sell quantity too small]">> \o decision.reason),
                      ok |-> TRUE]
                ELSE Portfolio_sell(pf, date, btc_price, btc_quantity, decision.reason)
      [] OTHER -> [pf |-> pf, ok |-> FALSE]

\* TradeExecutor.execute: the new portfolio and the returned bool
execute(decision, pf, date, btc_price) ==
    CASE decision.action = "HOLD" ->
            [pf |-> Portfolio_hold(pf, date, btc_price, decision.reason), ok |-> TRUE]
      [] decision.action = "BUY" ->
            LET usd_amount == PctOf(pf.usd_balance, decision.amount_pct)
            IN  IF usd_amount < MIN_BUY_USD
                THEN [pf |-> Portfolio_hold(pf, date, btc_price,
                                <<"[buy amount too small]">> \o decision.reason),
                      ok |-> TRUE]
                ELSE Portfolio_buy(pf, date, btc_price, usd_amount, decision.reason)
      [] decision.action = "SELL" ->
            LET btc_quantity == PctOf(pf.btc_position.quantity, decision.amount_pct)
            IN  IF btc_quantity < MIN_SELL_BTC
                THEN [pf |-> Portfolio_hold(pf, date, btc_price,
                                <<"[sell quantity too small]">> \o decision.reason),
                      ok |-> TRUE]
                ELSE Portfolio_sell(pf, date, btc_price, btc_quantity, decision.reason)
      [] OTHER -> [pf |-> pf, ok |-> FALSE]

\* a validation that checks the balance but not the amount of a buy
validate_decision_balance_only(decision, pf, btc_price) ==
    IF decision.action = "HOLD"
    THEN [valid |-> TRUE, reason |-> "HOLD is always valid", pf |-> pf]
    ELSE IF decision.amount_pct <= 0
    THEN [valid |-> FALSE, reason |-> "amount_pct must be above 0", pf |-> pf]
    ELSE IF decision.amount_pct > 100
    THEN [valid |-> FALSE, reason |-> "amount_pct must not exceed 100", pf |-> pf]
    ELSE IF decision.action = "BUY" /\ pf.usd_balance < MIN_BUY_USD
    THEN [valid |-> FALSE, reason |-> "USD balance too small", pf |-> pf]
    ELSE IF decision.action = "SELL" /\ pf.btc_position.quantity <= 0
    THEN [valid |-> FALSE, reason |-> "no BTC position to sell", pf |-> pf]
    ELSE IF decision.action = "SELL"
            /\ PctOf(pf.btc_position.quantity, decision.amount_pct) < MIN_SELL_BTC
    THEN [valid |-> FALSE, reason |-> "sell quantity too small", pf |-> pf]
    ELSE [valid |-> TRUE, reason |-> "decision is valid", pf |-> pf]

\* TradeExecutor.validate_decision: the returned pair, and the portfolio as
\* the call leaves it
validate_decision(decision, pf, btc_price) ==
    IF decision.action = "HOLD"
    THEN [valid |-> TRUE, reason |-> "HOLD is always valid", pf |-> pf]
    ELSE IF decision.amount_pct <= 0
    THEN [valid |-> FALSE, reason |-> "amount_pct must be above 0", pf |-> pf]
    ELSE IF decision.amount_pct > 100
    THEN [valid |-> FALSE, reason |-> "amount_pct must not exceed 100", pf |-> pf]
    ELSE IF decision.action = "BUY"
            /\ PctOf(pf.usd_balance, decision.amount_pct) < MIN_BUY_USD
    THEN [valid |-> FALSE, reason |-> "buy amount too small", pf |-> pf]
    ELSE IF decision.action = "BUY" /\ pf.usd_balance < MIN_BUY_USD
    THEN [valid |-> FALSE, reason |-> "USD balance too small", pf |-> pf]
    ELSE IF decision.action = "SELL" /\ pf.btc_position.quantity <= 0
    THEN [valid |-> FALSE, reason |-> "no BTC position to sell", pf |-> pf]
    ELSE IF decision.action = "SELL"
            /\ PctOf(pf.btc_position.quantity, decision.amount_pct) < MIN_SELL_BTC
    THEN [valid |-> FALSE, reason |-> "sell quantity too small", pf |-> pf]
    ELSE [valid |-> TRUE, reason |-> "decision is valid", pf |-> pf]

\* the texts the AI backend delivers in the model
AiTexts ==
    { Text("", FALSE, JBad, JBad, FALSE, FALSE),
      Text("[1, 2]", FALSE, JBad, JOther, FALSE, FALSE),
      Text("{\"action\": 5, \"amount_pct\": 10}", TRUE,
           JDict(JNum(5), JNum(10), JAbsent, JAbsent),
           JDict(JNum(5), JNum(10), JAbsent, JAbsent), FALSE, FALSE),
      Text("{\"action\": \"BUY\", \"amount_pct\": \"lots\"}", TRUE,
           JDict(JStr("BUY"), JStr("lots"), JAbsent, JAbsent),
           JDict(JStr("BUY"), JStr("lots"), JAbsent, JAbsent), TRUE, FALSE),
      Text("{\"action\": \"BUY\", \"amount_pct\": 1, \"reason\": \"probe\", \"confidence\": 70}",
           TRUE, JDict(JStr("BUY"), JNum(1), JStr("probe"), JNum(70)),
           JDict(JStr("BUY"), JNum(1), JStr("probe"), JNum(70)), TRUE, FALSE),
      Text("{\"action\": \"BUY\", \"amount_pct\": -5}", TRUE,
           JDict(JStr("BUY"), JNum(-5), JAbsent, JAbsent),
           JDict(JStr("BUY"), JNum(-5), JAbsent, JAbsent), TRUE, FALSE),
      Text("{\"action\": \"buy\", \"amount_pct\": 150, \"confidence\": -3}", TRUE,
           JDict(JStr("buy"), JNum(150), JAbsent, JNum(-3)),
           JDict(JStr("buy"), JNum(150), JAbsent, JNum(-3)), TRUE, FALSE),
      Text("Sure! {\"action\": \"SELL\", \"amount_pct\": 100, \"reason\": \"exit\", \"confidence\": 80}",
           TRUE, JDict(JStr("SELL"), JNum(100), JStr("exit"), JNum(80)), JBad,
           FALSE, TRUE) }

(***************************************************************************)
(* personas: the registry, the configurations and the rule functions.      *)
(***************************************************************************)
\* personas/__init__.py: PERSONAS, in declaration order
PERSONAS == <<"guardian", "degen", "quant", "strategist">>
PersonaIds == {PERSONAS[i] : i \in 1..Len(PERSONAS)}

\* get_config of the four personas: the information flags and the limit
PersonaConfig(id) ==
    CASE id = "guardian" ->
           [use_news |-> FALSE, use_technical |-> TRUE, use_fear_greed |-> TRUE,
            max_position_pct |-> 50]
      [] id = "degen" ->
           [use_news |-> TRUE, use_technical |-> FALSE, use_fear_greed |-> TRUE,
            max_position_pct |-> 100]
      [] id = "quant" ->
           [use_news |-> FALSE, use_technical |-> TRUE, use_fear_greed |-> FALSE,
            max_position_pct |-> 80]
      [] id = "strategist" ->
           [use_news |-> TRUE, use_technical |-> TRUE, use_fear_greed |-> TRUE,
            max_position_pct |-> 70]

\* the keywords of the rule functions that occur in a lowercased headline
Keywords(h) ==
    CASE h = "Bitcoin ETF approval sparks institutional rally" ->
           {"rally", "etf", "institutional", "approval"}
      [] h = "SEC lawsuit follows exchange hack" -> {"sec", "lawsuit", "hack"}
      [] h = "Fed holds rates" -> {"fed"}
      [] OTHER -> {}

\* the keywords in " ".join(context.news_headlines).lower()
NewsKeywords(headlines) ==
    UNION {Keywords(headlines[i]) : i \in 1..Len(headlines)}

DegenKeywords == {"surge", "rally", "bull", "etf", "adoption", "institutional"}
bullish_keywords ==
    {"etf", "approval", "approved", "institutional", "adoption", "blackrock",
     "fidelity", "regulation", "legal", "positive", "fed", "rate cut",
     "rate pause", "dovish"}
bearish_keywords ==
    {"ban", "crackdown", "regulation", "sec", "lawsuit", "fraud", "hack",
     "bankruptcy", "collapse", "rate hike", "hawkish", "investigation",
     "criminal"}

\* Python truthiness of an optional number and of an optional string
Truthy(x) == x # None /\ x # 0
TruthyStr(x) == x # NoneStr /\ x # ""

\* Guardian.make_decision_sync
Guardian_make_decision_sync(c) ==
    LET fg_value == IF Truthy(c.fear_greed_value) THEN c.fear_greed_value ELSE 50
        price_below_ma200 == Truthy(c.ma_200) /\ c.btc_price < c.ma_200
        rich == c.usd_balance > RULE_MIN_USD
    IN  IF fg_value < 20 /\ price_below_ma200 /\ rich
        THEN RuleText("BUY", 25, "guardian: extreme fear (FG=" \o ToString(fg_value)
                               \o ") below MA200", 75)
        ELSE IF fg_value < 25 /\ price_below_ma200 /\ rich
        THEN RuleText("BUY", 15, "guardian: fear (FG=" \o ToString(fg_value)
                               \o "), small entry", 65)
        ELSE IF fg_value > 80 /\ c.btc_quantity > 0
        THEN RuleText("SELL", 30, "guardian: extreme greed (FG=" \o ToString(fg_value)
                                \o "), take profit", 70)
        ELSE IF fg_value > 75 /\ c.btc_quantity > 0
        THEN RuleText("SELL", 20, "guardian: overheated (FG=" \o ToString(fg_value)
                                \o "), reduce exposure", 65)
        ELSE IF c.return_pct < -15 /\ c.btc_quantity > 0
        THEN RuleText("SELL", 50, "guardian: stop loss (loss " \o ToString(c.return_pct)
                                \o "%)", 80)
        ELSE RuleText("HOLD", 0, "guardian: unclear market, wait", 60)

\* Degen.make_decision_sync
Degen_make_decision_sync(c) ==
    LET fg_value == IF Truthy(c.fear_greed_value) THEN c.fear_greed_value ELSE 50
        change_pct == c.btc_change_pct
        has_bullish_news == NewsKeywords(c.news_headlines) \cap DegenKeywords # {}
        rich == c.usd_balance > RULE_MIN_USD
    IN  IF has_bullish_news /\ rich
        THEN RuleText("BUY", 40, "degen: bullish news", 85)
        ELSE IF change_pct > 5 /\ rich
        THEN RuleText("BUY", 35, "degen: big rally " \o ToString(change_pct) \o "%, chase", 80)
        ELSE IF change_pct > 3 /\ rich
        THEN RuleText("BUY", 25, "degen: good momentum " \o ToString(change_pct) \o "%", 70)
        ELSE IF fg_value > 70 /\ rich
        THEN RuleText("BUY", 30, "degen: market FOMO (FG=" \o ToString(fg_value) \o ")", 75)
        ELSE IF change_pct < -5 /\ rich
        THEN RuleText("BUY", 40, "degen: down " \o ToString(change_pct) \o "%, discount price", 85)
        ELSE IF change_pct < -3 /\ rich
        THEN RuleText("BUY", 25, "degen: pullback " \o ToString(change_pct) \o "%, add", 70)
        ELSE IF 2 * c.usd_balance > c.portfolio_value
        THEN RuleText("BUY", 20, "degen: too much cash", 60)
        ELSE RuleText("HOLD", 0, "degen: wait for a signal", 50)

\* ', '.join(signal_reasons[:3]) on a list of at most three
join(seq) ==
    IF Len(seq) = 0 THEN ""
    ELSE IF Len(seq) = 1 THEN seq[1]
    ELSE IF Len(seq) = 2 THEN seq[1] \o ", " \o seq[2]
    ELSE seq[1] \o ", " \o seq[2] \o ", " \o seq[3]

\* Quant.make_decision_sync; the signals are counted in halves
Quant_make_decision_sync(c) ==
    LET rsi_buy == c.rsi # None /\ c.rsi < 30
        rsi_sell == c.rsi # None /\ ~(c.rsi < 30) /\ c.rsi > 70
        macd_buy == TruthyStr(c.macd_signal) /\ c.macd_signal = "bullish"
        macd_sell == TruthyStr(c.macd_signal) /\ c.macd_signal = "bearish"
        bb_buy == TruthyStr(c.bb_position) /\ c.bb_position = "below_lower"
        bb_sell == TruthyStr(c.bb_position) /\ c.bb_position = "above_upper"
        ma_known == Truthy(c.ma_50) /\ Truthy(c.btc_price)
        ma_buy == ma_known /\ c.btc_price * 100 > c.ma_50 * 102
        ma_sell == ma_known /\ ~ma_buy /\ c.btc_price * 100 < c.ma_50 * 98
        Two(b) == IF b THEN 2 ELSE 0
        One(b) == IF b THEN 1 ELSE 0
        buy_signals == Two(rsi_buy) + Two(macd_buy) + Two(bb_buy) + One(ma_buy)
        sell_signals == Two(rsi_sell) + Two(macd_sell) + Two(bb_sell) + One(ma_sell)
        rsi_reason == IF rsi_buy THEN <<"RSI=" \o ToString(c.rsi) \o "<30 oversold">>
                      ELSE IF rsi_sell THEN <<"RSI=" \o ToString(c.rsi) \o ">70 overbought">>
                      ELSE <<>>
        macd_reason == IF macd_buy THEN <<"MACD bullish">>
                       ELSE IF macd_sell THEN <<"MACD bearish">> ELSE <<>>
        bb_reason == IF bb_buy THEN <<"price below lower band">>
                     ELSE IF bb_sell THEN <<"price above upper band">> ELSE <<>>
        signal_reasons == rsi_reason \o macd_reason \o bb_reason
        Size(n) == IF n >= 6 THEN 40 ELSE IF n >= 4 THEN 25 ELSE 15
        Conf(n) == IF n >= 6 THEN 85 ELSE IF n >= 4 THEN 75 ELSE 65
    IN  IF buy_signals >= sell_signals /\ buy_signals >= 2
           /\ c.usd_balance > RULE_MIN_USD
        THEN RuleText("BUY", Size(buy_signals),
                      "quant: buy signals: " \o join(signal_reasons), Conf(buy_signals))
        ELSE IF sell_signals > buy_signals /\ sell_signals >= 2 /\ c.btc_quantity > 0
        THEN RuleText("SELL", Size(sell_signals),
                      "quant: sell signals: " \o join(signal_reasons), Conf(sell_signals))
        ELSE RuleText("HOLD", 0, "quant: no clear signal"
                      \o (IF Truthy(c.rsi) THEN " (RSI=" \o ToString(c.rsi) \o ")" ELSE ""),
                      50)

\* Strategist.make_decision_sync
Strategist_make_decision_sync(c) ==
    LET kws == NewsKeywords(c.news_headlines)
        bullish_count == Cardinality(kws \cap bullish_keywords)
        bearish_count == Cardinality(kws \cap bearish_keywords)
        above_ma200 == Truthy(c.ma_200) /\ c.btc_price > c.ma_200
        below_ma200 == Truthy(c.ma_200) /\ c.btc_price < c.ma_200
        rich == c.usd_balance > RULE_MIN_USD
        fg == c.fear_greed_value
    IN  IF bullish_count >= 2 /\ rich
        THEN RuleText("BUY", 25, "strategist: macro tailwind", 75)
        ELSE IF bullish_count >= 1 /\ above_ma200 /\ rich
        THEN RuleText("BUY", 20, "strategist: uptrend with good news", 70)
        ELSE IF bearish_count >= 2 /\ c.btc_quantity > 0
        THEN RuleText("SELL", 30, "strategist: macro headwind", 75)
        ELSE IF bearish_count >= 1 /\ below_ma200 /\ c.btc_quantity > 0
        THEN RuleText("SELL", 20, "strategist: weak trend with bad news", 70)
        ELSE IF Truthy(fg) /\ fg < 20
        THEN IF rich
             THEN RuleText("BUY", 15, "strategist: extreme fear (FG=" \o ToString(fg)
                                 \o "), contrarian", 65)
             ELSE RuleText("HOLD", 0, "strategist: macro stable", 55)
        ELSE IF Truthy(fg) /\ fg > 85
        THEN IF c.btc_quantity > 0
             THEN RuleText("SELL", 15, "strategist: extreme greed (FG=" \o ToString(fg)
                                 \o "), trim", 65)
             ELSE RuleText("HOLD", 0, "strategist: macro stable", 55)
        ELSE IF above_ma200
        THEN RuleText("HOLD", 0, "strategist: above MA200, keep holding", 55)
        ELSE IF below_ma200
        THEN RuleText("HOLD", 0, "strategist: below MA200, wait", 55)
        ELSE RuleText("HOLD", 0, "strategist: unclear, be patient", 55)

\* a registry that hands the Guardian the Strategist's rules
make_decision_sync_shared(id, c) ==
    CASE id = "guardian" -> Strategist_make_decision_sync(c)
      [] id = "degen" -> Degen_make_decision_sync(c)
      [] id = "quant" -> Quant_make_decision_sync(c)
      [] id = "strategist" -> Strategist_make_decision_sync(c)

\* persona.make_decision_sync(context)
make_decision_sync(id, c) ==
    CASE id = "guardian" -> Guardian_make_decision_sync(c)
      [] id = "degen" -> Degen_make_decision_sync(c)
      [] id = "quant" -> Quant_make_decision_sync(c)
      [] id = "strategist" -> Strategist_make_decision_sync(c)

\* f"{x or 'N/A'}" on an optional string, and the three optional numbers
OrNA(x) == IF TruthyStr(x) THEN x ELSE "N/A"
NumIfTruthy(x) == IF Truthy(x) THEN "$" \o ToString(x) ELSE "N/A"
NumIfSet(x) == IF x # None THEN "$" \o ToString(x) ELSE "N/A"
RsiIfSet(x) == IF x # None THEN ToString(x) ELSE "N/A"

\* "\n".join([f"- {h}" for h in headlines[:5]])
RECURSIVE news_list(_, _)
news_list(headlines, i) ==
    IF i > Len(headlines) \/ i > 5 THEN ""
    ELSE (IF i > 1 THEN "\n" ELSE "") \o "- " \o headlines[i]
         \o news_list(headlines, i + 1)

\* the sections both prompts share
MarketSection(c) ==
    "date: " \o ToString(c.current_date) \o "\nBTC price: $" \o ToString(c.btc_price)
    \o "\nchange today: " \o ToString(c.btc_change_pct) \o "%"
SentimentSection(c) ==
    "- Fear & Greed Index: " \o ToString(c.fear_greed_value)
    \o " (" \o OrNA(c.fear_greed_label) \o ")"
PortfolioSection(c) ==
    "- total: $" \o ToString(c.portfolio_value)
    \o "\n- USD balance: $" \o ToString(c.usd_balance)
    \o "\n- BTC position: " \o ToString(c.btc_quantity) \o " BTC"
    \o "\n- return: " \o ToString(c.return_pct) \o "%"

\* InvestorPersona.build_decision_prompt
build_decision_prompt(id, c) ==
    LET config == PersonaConfig(id)
    IN  "## market\n" \o MarketSection(c)
        \o (IF config.use_technical /\ c.rsi # None
            THEN "\n## technical\n- RSI(14): " \o ToString(c.rsi)
                 \o " (" \o OrNA(c.rsi_signal) \o ")"
                 \o "\n- MACD: " \o OrNA(c.macd_signal)
                 \o "\n- MA50: " \o NumIfTruthy(c.ma_50)
                 \o "\n- MA200: " \o NumIfTruthy(c.ma_200)
                 \o "\n- Bollinger: " \o OrNA(c.bb_position)
                 \o "\n- overall: " \o OrNA(c.overall_technical)
            ELSE "")
        \o (IF config.use_fear_greed /\ c.fear_greed_value # None
            THEN "\n## sentiment\n" \o SentimentSection(c)
            ELSE "")
        \o (IF config.use_news /\ Len(c.news_headlines) > 0
            THEN "\n## news\n" \o news_list(c.news_headlines, 1)
            ELSE "")
        \o "\n## portfolio\n" \o PortfolioSection(c)
        \o "\n## request"

\* InvestorPersona.build_decision_prompt_compact
build_decision_prompt_compact(id, c) ==
    LET config == PersonaConfig(id)
    IN  "decide:\n" \o MarketSection(c)
        \o "\ntechnical:\n- RSI(14): " \o RsiIfSet(c.rsi)
        \o " (" \o OrNA(c.rsi_signal) \o ")"
        \o (IF TruthyStr(c.macd_signal) \/ Truthy(c.ma_50) \/ Truthy(c.ma_200)
            THEN "\n- MACD: " \o OrNA(c.macd_signal)
                 \o "\n- MA50: " \o NumIfSet(c.ma_50)
                 \o "\n- MA200: " \o NumIfSet(c.ma_200)
                 \o "\n- overall: " \o OrNA(c.overall_technical)
            ELSE "")
        \o (IF config.use_fear_greed /\ c.fear_greed_value # None
            THEN "\nsentiment:\n" \o SentimentSection(c)
            ELSE "")
        \o "\nportfolio:\n" \o PortfolioSection(c)
        \o "\nreply as JSON"

(***************************************************************************)
(* simulator.py: the market data, the context and the day loop.            *)
(***************************************************************************)
start_date == 1
end_date == MaxDays
Dates == start_date..end_date
total_days == end_date - start_date + 1

Bar(open, close) == [has |-> TRUE, open |-> open, close |-> close]
NoBar == [has |-> FALSE, open |-> 0, close |-> 0]

\* what the technical engine reports, and the empty result {}
Indicators(rsi, rsi_signal, macd_signal, ma_50, ma_200, bb_position, overall) ==
    [rsi |-> rsi, rsi_signal |-> rsi_signal, macd_signal |-> macd_signal,
     ma_50 |-> ma_50, ma_200 |-> ma_200, bb_position |-> bb_position,
     overall_signal |-> overall]
NoIndicators == Indicators(None, NoneStr, NoneStr, None, None, NoneStr, NoneStr)

\* ChronosSimulator._get_price_for_date
get_price_for_date(d) == price_data[d]

\* a count of every loaded bar, whatever its date
BarsUpTo_all(d) == history_bars + Cardinality({x \in Dates : price_data[x].has})

\* ChronosSimulator._calculate_technical_indicators: the bars dated up to d
BarsUpTo(d) == history_bars + Cardinality({x \in Dates : x <= d /\ price_data[x].has})

\* indicators estimated from whatever bars there are
calculate_technical_indicators_always(d) == tech_engine[d]

\* ChronosSimulator._calculate_technical_indicators: nothing below 50 bars
calculate_technical_indicators(d) ==
    IF BarsUpTo(d) < 50 THEN NoIndicators ELSE tech_engine[d]

\* the change of the day, in percent
change_pct(bar) ==
    IF bar.open > 0 THEN Times100Div(bar.close - bar.open, bar.open) ELSE 0

\* FearGreedCache.get_by_date: an item of the cache, or None for a date
\* the cache does not hold
FearGreedHistoryItem(value, classification) ==
    [value |-> value, classification |-> classification]
NoItem == [value |-> None, classification |-> NoneStr]

\* FearGreedHistoryItem.sentiment_zh: the Chinese label of the classification
\* (written here in pinyin), the neutral one for an unknown classification
sentiment_zh(item) ==
    CASE item.classification = "Extreme Fear" -> "jidu konghuang"
      [] item.classification = "Fear" -> "konghuang"
      [] item.classification = "Neutral" -> "zhongxing"
      [] item.classification = "Greed" -> "tanlan"
      [] item.classification = "Extreme Greed" -> "jidu tanlan"
      [] OTHER -> "zhongxing"

\* ChronosSimulator._build_context_for_persona
build_context_for_persona(id, d, bar, tech, pf) ==
    LET config == PersonaConfig(id)
        T(x, none) == IF config.use_technical THEN x ELSE none
        fg_item == fear_greed[d]
        found == config.use_fear_greed /\ fg_item # NoItem
    IN  [current_date |-> d,
         btc_price |-> bar.close,
         btc_change_pct |-> change_pct(bar),
         rsi |-> T(tech.rsi, None),
         rsi_signal |-> T(tech.rsi_signal, NoneStr),
         macd_signal |-> T(tech.macd_signal, NoneStr),
         ma_50 |-> T(tech.ma_50, None),
         ma_200 |-> T(tech.ma_200, None),
         bb_position |-> T(tech.bb_position, NoneStr),
         overall_technical |-> T(tech.overall_signal, NoneStr),
         fear_greed_value |-> IF found THEN fg_item.value ELSE None,
         fear_greed_label |-> IF found THEN sentiment_zh(fg_item) ELSE NoneStr,
         news_headlines |-> IF config.use_news THEN news[d] ELSE <<>>,
         news_summaries |-> <<>>,
         portfolio_value |-> get_total_value(pf, bar.close),
         usd_balance |-> pf.usd_balance,
         btc_quantity |-> pf.btc_position.quantity,
         return_pct |-> get_return_pct(pf, bar.close)]

NoContext ==
    [current_date |-> 0, btc_price |-> 0, btc_change_pct |-> 0, rsi |-> None,
     rsi_signal |-> NoneStr, macd_signal |-> NoneStr, ma_50 |-> None,
     ma_200 |-> None, bb_position |-> NoneStr, overall_technical |-> NoneStr,
     fear_greed_value |-> None, fear_greed_label |-> NoneStr,
     news_headlines |-> <<>>, news_summaries |-> <<>>, portfolio_value |-> 0,
     usd_balance |-> 0, btc_quantity |-> 0, return_pct |-> 0]

NoText == Text("", FALSE, JBad, JBad, FALSE, FALSE)
NoRequest == [persona |-> "", date |-> 0]
NoDecisions == [p \in PersonaIds |-> NoDecision]

(***************************************************************************)
(* The market data of a run: loaded before the loop starts, read-only in   *)
(* it.  A calm market (flat price, no sentiment, no news, too few bars     *)
(* for indicators) and a wild one (the price swings between two levels,    *)
(* sentiment, news and indicators swing with it); any one date of the      *)
(* range, or none, has no bar.                                             *)
(***************************************************************************)
Odd(d) == d % 2 = 1
HighPrice == 200000 \div 100     \* 200,000 USD per BTC
LowPrice == 100000 \div 100      \* 100,000 USD per BTC

Oversold == Indicators(25, "oversold", "bullish", 1800, 1800, "below_lower", "bullish")
Overbought == Indicators(75, "overbought", "bearish", 1500, 1500, "above_upper", "bearish")

MarketData(kind, missing) ==
    [price_data |->
        [d \in Dates |->
            IF d = missing THEN NoBar
            ELSE IF kind = "calm" THEN Bar(HighPrice, HighPrice)
            ELSE IF Odd(d) THEN Bar(HighPrice, LowPrice)
            ELSE Bar(LowPrice, HighPrice)],
     history_bars |-> IF kind = "calm" THEN 0 ELSE IF kind = "young" THEN 48 ELSE 250,
     fear_greed |-> [d \in Dates |->
                       IF kind = "calm" THEN NoItem
                       ELSE IF Odd(d) THEN FearGreedHistoryItem(15, "Extreme Fear")
                       ELSE FearGreedHistoryItem(85, "Extreme Greed")],
     news |-> [d \in Dates |->
                 IF kind = "calm" THEN <<>>
                 ELSE IF Odd(d) THEN <<"SEC lawsuit follows exchange hack">>
                 ELSE <<"Bitcoin ETF approval sparks institutional rally",
                        "Fed holds rates">>],
     tech_engine |-> [d \in Dates |-> IF Odd(d) THEN Oversold ELSE Overbought]]

Markets == {MarketData(kind, missing) : kind \in {"calm", "wild"}, missing \in 0..MaxDays}

NoReturn == [call |-> "none"]
NoStats == [ai_decisions |-> 0, rule_decisions |-> 0, timeout_fallbacks |-> 0,
            error_fallbacks |-> 0]

\* SimulationConfig and _load_price_data: the configuration and the market data
InitData(ai, m) ==
    /\ use_ai = ai
    /\ price_data = m.price_data
    /\ history_bars = m.history_bars
    /\ fear_greed = m.fear_greed
    /\ news = m.news
    /\ tech_engine = m.tech_engine

\* ChronosSimulator.__init__ and _init_components, up to the head of the loop
InitRun(e, ai, m) ==
    /\ entry = e
    /\ InitData(ai, m)
    /\ pc = "loop"
    /\ current_date = start_date
    /\ day_count = 0
    /\ idx = 0
    /\ context = NoContext
    /\ request = NoRequest
    /\ response = NoText
    /\ decisions = NoDecisions
    /\ portfolio_values = [p \in PersonaIds |-> 0]
    /\ portfolios = [p \in PersonaIds |-> NewPortfolio]
    /\ daily_results = <<>>
    /\ stats = NoStats
    /\ exc = "none"
    /\ ledger_calls = 0
    /\ returned = NoReturn

EntryPoints == {"run", "run_sync"}

Init == \E e \in EntryPoints, ai \in BOOLEAN, m \in Markets : InitRun(e, ai, m)

data == <<entry, use_ai, price_data, history_bars, fear_greed, news, tech_engine,
          ledger_calls, returned>>

\* a loop that ends one date early: while current_date < end_date
Finish_early ==
    /\ pc = "loop"
    /\ current_date >= end_date
    /\ pc' = "done"
    /\ UNCHANGED <<data, current_date, day_count, idx, context, request, response,
                   decisions, portfolio_values, portfolios, daily_results, stats, exc>>

\* the loop ends: while current_date <= end_date
Finish ==
    /\ pc = "loop"
    /\ current_date > end_date
    /\ pc' = "done"
    /\ UNCHANGED <<data, current_date, day_count, idx, context, request, response,
                   decisions, portfolio_values, portfolios, daily_results, stats, exc>>

\* a date with no price bar ends the loop: break in place of continue
SkipDate_break ==
    /\ pc = "loop"
    /\ current_date <= end_date
    /\ ~get_price_for_date(current_date).has
    /\ day_count' = day_count + 1
    /\ pc' = "done"
    /\ UNCHANGED <<data, current_date, idx, context, request, response, decisions,
                   portfolio_values, portfolios, daily_results, stats, exc>>

\* a date with no price bar: skipped
SkipDate ==
    /\ pc = "loop"
    /\ current_date <= end_date
    /\ ~get_price_for_date(current_date).has
    /\ day_count' = day_count + 1
    /\ current_date' = current_date + 1
    /\ UNCHANGED <<data, pc, idx, context, request, response, decisions,
                   portfolio_values, portfolios, daily_results, stats, exc>>

\* a date with a price bar: the loop over the personas starts
StartDate ==
    /\ pc = "loop"
    /\ current_date <= end_date
    /\ get_price_for_date(current_date).has
    /\ day_count' = day_count + 1
    /\ idx' = 1
    /\ decisions' = NoDecisions
    /\ portfolio_values' = [p \in PersonaIds |-> 0]
    /\ pc' = "persona"
    /\ UNCHANGED <<data, current_date, context, request, response, portfolios,
                   daily_results, stats, exc>>

\* TradeDecision.to_dict
to_dict(decision) == decision

\* the rest of a persona's turn once the decision text is there: parse,
\* execute, snapshot, record; an exception of parse_decision leaves the run.
\* (\E over a one-element set names a value that is computed once.)
Settle(id, text) ==
    \E bar \in {get_price_for_date(current_date)}, parsed \in {parse_decision(text)} :
    \E done \in {execute(parsed.decision, portfolios[id], current_date, bar.close)} :
    \E pf \in {Portfolio_take_snapshot(done.pf, current_date, bar.close)} :
        /\ response' = text
        /\ IF parsed.raised # "none"
           THEN /\ pc' = "aborted"
                /\ exc' = parsed.raised
                /\ UNCHANGED <<idx, decisions, portfolio_values, portfolios>>
           ELSE /\ portfolios' = [portfolios EXCEPT ![id] = pf]
                /\ decisions' = [decisions EXCEPT ![id] = to_dict(parsed.decision)]
                /\ portfolio_values' =
                      [portfolio_values EXCEPT ![id] = get_total_value(pf, bar.close)]
                /\ idx' = idx + 1
                /\ pc' = IF idx = Len(PERSONAS) THEN "end_day" ELSE "persona"
                /\ exc' = exc

\* _run_simulation asks the backend (if self.config.use_ai); its else branch
\* and all of _run_simulation_sync, which never reads use_ai, take rule turns
AiMode == entry = "run" /\ use_ai

\* a context built for every persona on the first persona's portfolio
ContextNow_first(id) ==
    build_context_for_persona(id, current_date, get_price_for_date(current_date),
                              calculate_technical_indicators(current_date),
                              portfolios[PERSONAS[1]])

\* the context of the persona in hand
ContextNow(id) ==
    build_context_for_persona(id, current_date, get_price_for_date(current_date),
                              calculate_technical_indicators(current_date),
                              portfolios[id])

\* a rule-mode turn taken by any persona that has no decision for the date
PersonaSync_any_order ==
    /\ pc = "persona"
    /\ ~AiMode
    /\ \E id \in {p \in PersonaIds : decisions[p] = NoDecision} :
       \E c \in {ContextNow(id)} :
       \E text \in {make_decision_sync(id, c)} :
          /\ context' = c
          /\ Settle(id, text)
    /\ UNCHANGED <<data, current_date, day_count, request, daily_results, stats>>

\* a persona's turn in rule mode
PersonaSync ==
    /\ pc = "persona"
    /\ ~AiMode
    /\ \E c \in {ContextNow(PERSONAS[idx])} :
       \E text \in {make_decision_sync(PERSONAS[idx], c)} :
          /\ context' = c
          /\ Settle(PERSONAS[idx], text)
    /\ UNCHANGED <<data, current_date, day_count, request, daily_results, stats>>

\* _get_decision_from_main_agent: the prompt is built and sent
AiRequest ==
    /\ pc = "persona"
    /\ AiMode
    /\ context' = ContextNow(PERSONAS[idx])
    /\ request' = [persona |-> PERSONAS[idx], date |-> current_date]
    /\ pc' = "await"
    /\ UNCHANGED <<data, current_date, day_count, idx, response, decisions,
                   portfolio_values, portfolios, daily_results, stats, exc>>

\* _get_decision_from_main_agent: the backend's text arrives in time
on_reply(st) == [st EXCEPT !.ai_decisions = @ + 1]
AiReply ==
    /\ pc = "await"
    /\ stats.ai_decisions < MaxAiReplies
    /\ \E text \in AiTexts :
          /\ stats' = on_reply(stats)
          /\ request' = NoRequest
          /\ Settle(request.persona, text)
    /\ UNCHANGED <<data, current_date, day_count, context, daily_results>>

\* a timeout booked as an AI decision
on_timeout_as_ai(st) ==
    [st EXCEPT !.timeout_fallbacks = @ + 1, !.ai_decisions = @ + 1]

\* _get_decision_from_main_agent: except asyncio.TimeoutError
on_timeout(st) ==
    [st EXCEPT !.timeout_fallbacks = @ + 1, !.rule_decisions = @ + 1]
\* a timeout after which the same persona's AI request is issued again
AiTimeout_retry ==
    /\ pc = "await"
    /\ stats.timeout_fallbacks < 1
    /\ stats' = [stats EXCEPT !.timeout_fallbacks = @ + 1]
    /\ request' = NoRequest
    /\ pc' = "persona"
    /\ UNCHANGED <<data, current_date, day_count, idx, context, response,
                   decisions, portfolio_values, portfolios, daily_results, exc>>

AiTimeout ==
    /\ pc = "await"
    /\ stats' = on_timeout(stats)
    /\ request' = NoRequest
    /\ \E text \in {make_decision_sync(request.persona, context)} :
          Settle(request.persona, text)
    /\ UNCHANGED <<data, current_date, day_count, context, daily_results>>

\* an exception handler that counts nothing
on_error_uncounted(st) == st

\* _get_decision_from_main_agent: except Exception.  The exception comes
\* from create_session or send_and_wait, or (late) from reading
\* response.data.content, after ai_decisions was incremented
on_error(st) ==
    [st EXCEPT !.error_fallbacks = @ + 1, !.rule_decisions = @ + 1]
AiError ==
    /\ pc = "await"
    /\ stats.error_fallbacks < MaxAiErrors
    /\ \E late \in BOOLEAN :
          stats' = on_error(IF late THEN on_reply(stats) ELSE stats)
    /\ request' = NoRequest
    /\ \E text \in {make_decision_sync(request.persona, context)} :
          Settle(request.persona, text)
    /\ UNCHANGED <<data, current_date, day_count, context, daily_results>>

\* the day's DailyResult is appended and the loop moves to the next date
DailyResult(d, bar, ds, values) ==
    [date |-> d, btc_price |-> bar.close, btc_change_pct |-> change_pct(bar),
     decisions |-> ds, portfolio_values |-> values]
EndDay ==
    /\ pc = "end_day"
    /\ daily_results' = Append(daily_results,
            DailyResult(current_date, get_price_for_date(current_date),
                        decisions, portfolio_values))
    /\ current_date' = current_date + 1
    /\ pc' = "loop"
    /\ UNCHANGED <<data, day_count, idx, context, request, response, decisions,
                   portfolio_values, portfolios, stats, exc>>

Next ==
    \/ Finish
    \/ SkipDate
    \/ StartDate
    \/ PersonaSync
    \/ AiRequest
    \/ AiReply
    \/ AiTimeout
    \/ AiError
    \/ EndDay

Spec == Init /\ [][Next]_vars

(***************************************************************************)
(* The rule-mode run (run_sync and _run_simulation_sync): the day loop     *)
(* taking rule turns, whatever use_ai says.  The loop is sequential code:  *)
(* once started it keeps taking its next step, which FairSync states.      *)
(***************************************************************************)
InitSync == \E ai \in BOOLEAN, m \in Markets : InitRun("run_sync", ai, m)

NextSync ==
    \/ Finish
    \/ SkipDate
    \/ StartDate
    \/ PersonaSync
    \/ EndDay

SpecSync == InitSync /\ [][NextSync]_vars

FairSync == SpecSync /\ WF_vars(NextSync)

(***************************************************************************)
(* The rule-mode run over markets with any amount of history, among them   *)
(* a young market whose 48 bars of history reach 50 bars within the range. *)
(***************************************************************************)
InitBars ==
    \E ai \in BOOLEAN,
       m \in Markets \cup {MarketData("young", missing) : missing \in 0..MaxDays} :
        InitRun("run_sync", ai, m)

SpecBars == InitBars /\ [][NextSync]_vars

(***************************************************************************)
(* The AI run in which every request times out.                            *)
(***************************************************************************)
InitAi == \E m \in Markets : InitRun("run", TRUE, m)

NextTimeout ==
    \/ Finish
    \/ SkipDate
    \/ StartDate
    \/ AiRequest
    \/ AiTimeout
    \/ EndDay

SpecTimeout == InitAi /\ [][NextTimeout]_vars

(***************************************************************************)
(* A portfolio used on its own: any sequence of buy, sell, hold and        *)
(* take_snapshot calls, with requests that are negative, zero, feasible    *)
(* and larger than what the portfolio has.                                 *)
(***************************************************************************)
LedgerPrices == {LowPrice, HighPrice}
LedgerUsd == {-5 * UsdUnits, 0, 400 * UsdUnits, 2000 * UsdUnits}
LedgerBtc == {-1, 0, BtcUnits \div 1000, BtcUnits}

InitLedger ==
    /\ entry = "none"
    /\ InitData(FALSE, MarketData("calm", 0))
    /\ pc = "ledger"
    /\ current_date = start_date
    /\ day_count = 0
    /\ idx = 0
    /\ context = NoContext
    /\ request = NoRequest
    /\ response = NoText
    /\ decisions = NoDecisions
    /\ portfolio_values = [p \in PersonaIds |-> 0]
    /\ portfolios = [p \in {"book"} |-> NewPortfolio]
    /\ daily_results = <<>>
    /\ stats = NoStats
    /\ exc = "none"
    /\ ledger_calls = 0
    /\ returned = NoReturn

\* one call on the portfolio; the calls are dated by their number
LedgerCall(pf) ==
    /\ pc = "ledger"
    /\ ledger_calls < MaxOps
    /\ ledger_calls' = ledger_calls + 1
    /\ portfolios' = [portfolios EXCEPT !["book"] = pf]
    /\ UNCHANGED <<entry, use_ai, price_data, history_bars, fear_greed, news, tech_engine,
                   pc, current_date, day_count, idx, context, request, response,
                   decisions, portfolio_values, daily_results, stats, exc,
                   returned>>

LedgerBuy ==
    \E price \in LedgerPrices, usd_amount \in LedgerUsd :
        LedgerCall(Portfolio_buy(portfolios["book"], ledger_calls + 1, price,
                                 usd_amount, <<"ledger">>).pf)

LedgerSell ==
    \E price \in LedgerPrices, btc_quantity \in LedgerBtc :
        LedgerCall(Portfolio_sell(portfolios["book"], ledger_calls + 1, price,
                                  btc_quantity, <<"ledger">>).pf)

LedgerHold ==
    \E price \in LedgerPrices :
        LedgerCall(Portfolio_hold(portfolios["book"], ledger_calls + 1, price,
                                  <<"ledger">>))

LedgerSnapshot ==
    \E price \in LedgerPrices :
        LedgerCall(Portfolio_take_snapshot(portfolios["book"], ledger_calls + 1,
                                           price))

NextLedger ==
    \/ LedgerBuy
    \/ LedgerSell
    \/ LedgerHold
    \/ LedgerSnapshot

SpecLedger == InitLedger /\ [][NextLedger]_vars

(***************************************************************************)
(* A TradeExecutor used on one portfolio: any sequence of execute and      *)
(* validate_decision calls on decisions with amount_pct in [0,100].        *)
(* What a call returned is kept with the number of portfolio calls made    *)
(* before it.                                                              *)
(***************************************************************************)
ExecutorPcts == {0, 1, 50, 100}
ExecutorDecisions ==
    {TradeDecision(a, pct, <<"r">>, 50) : a \in {"BUY", "SELL"}, pct \in ExecutorPcts}
        \cup {TradeDecision("HOLD", 0, <<"r">>, 0)}

ExecutorExecute ==
    \E d \in ExecutorDecisions, price \in LedgerPrices :
        \E r \in {execute(d, portfolios["book"], ledger_calls + 1, price)} :
            /\ pc = "ledger"
            /\ ledger_calls < MaxOps
            /\ ledger_calls' = ledger_calls + 1
            /\ portfolios' = [portfolios EXCEPT !["book"] = r.pf]
            /\ returned' = [call |-> "execute", after |-> ledger_calls, ok |-> r.ok]
            /\ UNCHANGED <<entry, use_ai, price_data, history_bars, fear_greed, news,
                           tech_engine, pc, current_date, day_count, idx, context,
                           request, response, decisions, portfolio_values,
                           daily_results, stats, exc>>

ExecutorValidate ==
    \E d \in ExecutorDecisions, price \in LedgerPrices :
        \E r \in {validate_decision(d, portfolios["book"], price)} :
            /\ pc = "ledger"
            /\ portfolios' = [portfolios EXCEPT !["book"] = r.pf]
            /\ returned' = [call |-> "validate_decision", after |-> ledger_calls,
                            decision |-> d, btc_price |-> price,
                            valid |-> r.valid, reason |-> r.reason]
            /\ UNCHANGED <<entry, use_ai, price_data, history_bars, fear_greed, news,
                           tech_engine, pc, current_date, day_count, idx, context,
                           request, response, decisions, portfolio_values,
                           daily_results, stats, exc, ledger_calls>>

NextExecutor ==
    \/ ExecutorExecute
    \/ ExecutorValidate

SpecExecutor == InitLedger /\ [][NextExecutor]_vars

(***************************************************************************)
(* A persona used on its own: its rule function and its two prompt         *)
(* builders called on a MarketContext.  The contexts are any combination   *)
(* of a price, the technical fields, the sentiment fields, the headlines   *)
(* and the persona's portfolio figures, whatever the persona's flags.      *)
(***************************************************************************)
TechValues ==
    {NoIndicators, Oversold, Overbought,
     Indicators(None, NoneStr, "bullish", 1500, None, NoneStr, NoneStr),
     Indicators(0, "oversold", "neutral", None, 1500, "within", "neutral")}
FearGreedValues ==
    {[value |-> None, label |-> NoneStr], [value |-> 0, label |-> "Extreme Fear"],
     [value |-> 10, label |-> "Extreme Fear"], [value |-> 50, label |-> ""],
     [value |-> 90, label |-> "Extreme Greed"]}
NewsValues ==
    {<<>>, <<"SEC lawsuit follows exchange hack">>,
     <<"Bitcoin ETF approval sparks institutional rally", "Fed holds rates">>}
PriceValues ==
    {[btc_price |-> LowPrice, btc_change_pct |-> -6],
     [btc_price |-> LowPrice, btc_change_pct |-> 0],
     [btc_price |-> HighPrice, btc_change_pct |-> 4]}
HoldingValues ==
    {[portfolio_value |-> 1000 * UsdUnits, usd_balance |-> 1000 * UsdUnits,
      btc_quantity |-> 0, return_pct |-> 0],
     [portfolio_value |-> 800 * UsdUnits, usd_balance |-> 0,
      btc_quantity |-> BtcUnits \div 200, return_pct |-> -20],
     [portfolio_value |-> 1100 * UsdUnits, usd_balance |-> 300 * UsdUnits,
      btc_quantity |-> BtcUnits \div 250, return_pct |-> 10]}

\* MarketContext(...)
MarketContext(m, t, f, n, h) ==
    [current_date |-> 1, btc_price |-> m.btc_price,
     btc_change_pct |-> m.btc_change_pct,
     rsi |-> t.rsi, rsi_signal |-> t.rsi_signal, macd_signal |-> t.macd_signal,
     ma_50 |-> t.ma_50, ma_200 |-> t.ma_200, bb_position |-> t.bb_position,
     overall_technical |-> t.overall_signal,
     fear_greed_value |-> f.value, fear_greed_label |-> f.label,
     news_headlines |-> n, news_summaries |-> <<>>,
     portfolio_value |-> h.portfolio_value, usd_balance |-> h.usd_balance,
     btc_quantity |-> h.btc_quantity, return_pct |-> h.return_pct]

MarketContexts ==
    {MarketContext(m, t, f, n, h) : m \in PriceValues, t \in TechValues,
        f \in FearGreedValues, n \in NewsValues, h \in HoldingValues}

InitPersona ==
    /\ entry = "none"
    /\ InitData(FALSE, MarketData("calm", 0))
    /\ pc = "persona"
    /\ current_date = start_date
    /\ day_count = 0
    /\ idx = 0
    /\ context \in MarketContexts
    /\ request \in {[persona |-> id, date |-> 1] : id \in PersonaIds}
    /\ response = NoText
    /\ decisions = NoDecisions
    /\ portfolio_values = [p \in PersonaIds |-> 0]
    /\ portfolios = [p \in PersonaIds |-> NewPortfolio]
    /\ daily_results = <<>>
    /\ stats = NoStats
    /\ exc = "none"
    /\ ledger_calls = 0
    /\ returned = NoReturn

\* persona.make_decision_sync(context)
PersonaDecide ==
    /\ pc = "persona"
    /\ response' = make_decision_sync(request.persona, context)
    /\ UNCHANGED <<data, pc, current_date, day_count, idx, context, request,
                   decisions, portfolio_values, portfolios, daily_results, stats,
                   exc>>

PersonaCall(call, prompt) ==
    /\ pc = "persona"
    /\ returned' = [call |-> call, prompt |-> prompt]
    /\ UNCHANGED <<entry, use_ai, price_data, history_bars, fear_greed, news, tech_engine,
                   ledger_calls, pc, current_date, day_count, idx, context,
                   request, response, decisions, portfolio_values, portfolios,
                   daily_results, stats, exc>>

\* persona.build_decision_prompt(context)
PersonaPrompt ==
    PersonaCall("build_decision_prompt",
                build_decision_prompt(request.persona, context))

\* persona.build_decision_prompt_compact(context)
PersonaPromptCompact ==
    PersonaCall("build_decision_prompt_compact",
                build_decision_prompt_compact(request.persona, context))

NextPersona ==
    \/ PersonaDecide
    \/ PersonaPrompt
    \/ PersonaPromptCompact

SpecPersona == InitPersona /\ [][NextPersona]_vars

(***************************************************************************)
(* The performance summary of a finished run (_generate_reports, called    *)
(* once the loop is over): the personas' final values against the initial  *)
(* capital and against the price of the first and the last simulated date. *)
(* The code compares the returns unrounded; the model keeps them in units  *)
(* of 1/PercentScale of a percent, in which a persona's return is the      *)
(* whole number final_value - initial_capital.                             *)
(***************************************************************************)
PercentScale == initial_capital \div 100

\* ((last_price - first_price) / first_price) * 100, scaled by PercentScale:
\* floor((last_price - first_price) * initial_capital / first_price).  A
\* whole number exceeds a fraction exactly when it exceeds its floor.
btc_return(results) ==
    LET first_price == results[1].btc_price
        change == results[Len(results)].btc_price - first_price
    IN  change * (initial_capital \div first_price)
           + (change * (initial_capital % first_price)) \div first_price

\* one row of the summary; return_pct is
\* ((final_value - initial_capital) / initial_capital) * 100, scaled by
\* PercentScale
SummaryRow(id, results) ==
    LET final_value == results[Len(results)].portfolio_values[id]
        return_pct == final_value - initial_capital
    IN  [id |-> id, final_value |-> final_value, return_pct |-> return_pct,
         beat_btc |-> return_pct > btc_return(results)]

\* a descending sort that puts a row before the rows of equal return
sort_step_unstable(sorted, row) ==
    LET before == SelectSeq(sorted, LAMBDA r : r.return_pct > row.return_pct)
        after == SelectSeq(sorted, LAMBDA r : r.return_pct <= row.return_pct)
    IN  before \o <<row>> \o after

\* results.sort(key=return_pct, reverse=True), one row at a time: the sort
\* is stable, so a row goes after the rows of equal return that precede it
sort_step(sorted, row) ==
    LET before == SelectSeq(sorted, LAMBDA r : r.return_pct >= row.return_pct)
        after == SelectSeq(sorted, LAMBDA r : r.return_pct < row.return_pct)
    IN  before \o <<row>> \o after

\* ChronosSimulator._print_performance_summary: the ranked rows
RECURSIVE ranked_rows(_, _)
ranked_rows(results, n) ==
    IF n = 0 THEN <<>>
    ELSE sort_step(ranked_rows(results, n - 1), SummaryRow(PERSONAS[n], results))
print_performance_summary(results) ==
    IF results = <<>> THEN <<>> ELSE ranked_rows(results, Len(PERSONAS))

\* final values of a run: whole percentages of the capital and values a
\* fraction of a percent away from them
FinalValues ==
    {initial_capital \div 2, initial_capital \div 2 + UsdUnits \div 10,
     initial_capital, initial_capital + 4 * UsdUnits, 2 * initial_capital,
     5 * (initial_capital \div 2)}

InitReport ==
    /\ entry = "run_sync"
    /\ InitData(FALSE, MarketData("calm", 0))
    /\ pc = "done"
    /\ current_date = end_date + 1
    /\ day_count = 2
    /\ idx = 0
    /\ context = NoContext
    /\ request = NoRequest
    /\ response = NoText
    /\ decisions = NoDecisions
    /\ portfolio_values \in [PersonaIds -> FinalValues]
    /\ portfolios = [p \in PersonaIds |-> NewPortfolio]
    /\ \E first \in LedgerPrices \cup {LowPrice + 1},
          last \in LedgerPrices \cup {LowPrice + 1} :
          daily_results =
              << [date |-> 1, btc_price |-> first, btc_change_pct |-> 0,
                  decisions |-> NoDecisions,
                  portfolio_values |-> [p \in PersonaIds |-> initial_capital]],
                 [date |-> 2, btc_price |-> last, btc_change_pct |-> 0,
                  decisions |-> NoDecisions,
                  portfolio_values |-> portfolio_values] >>
    /\ stats = NoStats
    /\ exc = "none"
    /\ ledger_calls = 0
    /\ returned = NoReturn

\* _generate_reports: the summary of the finished run
Report ==
    /\ pc = "done"
    /\ returned' = [call |-> "_print_performance_summary",
                    rows |-> print_performance_summary(daily_results)]
    /\ pc' = "reported"
    /\ UNCHANGED <<entry, use_ai, price_data, history_bars, fear_greed, news, tech_engine,
                   ledger_calls, current_date, day_count, idx, context, request,
                   response, decisions, portfolio_values, portfolios,
                   daily_results, stats, exc>>

SpecReport == InitReport /\ [][Report]_vars

(***************************************************************************)
(* Properties of the portfolio ledger.                                     *)
(***************************************************************************)
Last(seq) == seq[Len(seq)]

\* C1: after any sequence of buy, sell and hold calls, whatever the price and
\* the requested amount or quantity (larger than what is available, zero or
\* negative included), the cash balance and the position quantity are >= 0.
C1_BalancesNeverNegative ==
    \A p \in DOMAIN portfolios :
        /\ portfolios[p].usd_balance >= 0
        /\ portfolios[p].btc_position.quantity >= 0

\* a buy that asked for more than the balance spent all of it, and a sell
\* that asked for more than the position sold all of it
C1_Witness ==
    /\ pc = "ledger"
    /\ Len(portfolios["book"].trades) = 2
    /\ portfolios["book"].trades[1].action = "BUY"
    /\ portfolios["book"].trades[1].usd_amount = initial_capital
    /\ portfolios["book"].trades[2].action = "SELL"
    /\ portfolios["book"].trades[2].quantity = portfolios["book"].trades[1].quantity
    /\ portfolios["book"].btc_position.quantity = 0

\* the prices at which a portfolio is valued in the properties
ValuationPrices == {1, LowPrice, HighPrice, LowPrice + HighPrice}

\* C2: in every reachable portfolio state and at every price, get_total_value
\* is the cash balance plus the position quantity times the price; the total
\* value a snapshot stores is that sum at the snapshot's price.
C2_TotalValueIsCashPlusPosition ==
    \A p \in DOMAIN portfolios :
        LET pf == portfolios[p]
        IN  /\ \A price \in ValuationPrices :
                  get_total_value(pf, price)
                      = pf.usd_balance + pf.btc_position.quantity * price
            /\ \A k \in 1..Len(pf.snapshots) :
                  pf.snapshots[k].total_value_usd
                      = pf.snapshots[k].usd_balance
                        + pf.snapshots[k].btc_quantity * pf.snapshots[k].btc_price

\* a snapshot taken while the portfolio holds both cash and bitcoin, at a
\* price other than the one it bought at
C2_Witness ==
    /\ pc = "ledger"
    /\ portfolios["book"].snapshots # <<>>
    /\ Last(portfolios["book"].snapshots).btc_quantity > 0
    /\ Last(portfolios["book"].snapshots).usd_balance > 0
    /\ Last(portfolios["book"].snapshots).btc_price
          # portfolios["book"].btc_position.avg_cost

(***************************************************************************)
(* Properties of the decision parser and of the decision call.             *)
(***************************************************************************)
\* C3: parse_decision is total: for every text the decision call hands it
\* (empty, not JSON, JSON that is no object, an object whose action is no
\* string or whose amount_pct or confidence is not numeric) it returns a
\* decision whose action is BUY, SELL or HOLD, and it never raises.
C3_ParseDecisionIsTotal ==
    /\ parse_decision(response).raised = "none"
    /\ parse_decision(response).decision.action \in TradeAction

\* the step out of an AI request that delivered the backend's text
IsReplyStep ==
    /\ response' \in AiTexts
    /\ stats' = [stats EXCEPT !.ai_decisions = @ + 1]

\* the step out of an AI request that fell back to the persona's rules
IsFallbackStep ==
    /\ response' = make_decision_sync(request.persona, context)
    /\ stats'.timeout_fallbacks + stats'.error_fallbacks
          = stats.timeout_fallbacks + stats.error_fallbacks + 1
    /\ stats'.rule_decisions = stats.rule_decisions + 1
    /\ parse_decision(response').raised = "none"
    /\ decisions'[request.persona] = parse_decision(response').decision
    /\ pc' \in {"persona", "end_day"}
    /\ exc' = "none"

\* C4: the decision call never lets a failure of the AI path out: on a
\* timeout or an exception it counts a fallback, returns the persona's
\* rule-based decision for the context in hand, and the loop goes on with
\* that value; the only other way out of a request is the backend's reply.
C4_FailureFallsBackToRules ==
    [][pc = "await" => (IsReplyStep \/ IsFallbackStep)]_vars

\* a run that met a timeout and an exception and still simulated every date
C4_Witness ==
    /\ pc = "done"
    /\ stats.error_fallbacks > 0
    /\ stats.timeout_fallbacks > 0
    /\ stats.rule_decisions = stats.error_fallbacks + stats.timeout_fallbacks
    /\ Len(daily_results) = total_days

\* C5: nothing that happens to one persona on one date aborts the run:
\* whatever the backend returns or raises, no exception leaves the day loop.
C5_NoPersonaDayAbortsTheRun ==
    /\ pc # "aborted"
    /\ exc = "none"

(***************************************************************************)
(* Properties of the day loop.                                             *)
(***************************************************************************)
\* the in-range dates that have a price bar
BarDates == {d \in Dates : price_data[d].has}

\* the trade records of all portfolios together
TradesLogged ==
    LET n(i) == Len(portfolios[PERSONAS[i]].trades)
    IN  n(1) + n(2) + n(3) + n(4)

\* C6: when every AI request times out, ai_decisions stays 0 and
\* rule_decisions counts the persona-days processed, one per persona per
\* simulated date; after the run there is a DailyResult for every in-range
\* date that has a price bar.
C6_AllTimeoutsAllRules ==
    /\ stats.ai_decisions = 0
    /\ stats.rule_decisions = TradesLogged
    /\ stats.timeout_fallbacks = stats.rule_decisions
    /\ pc # "aborted"
    /\ pc = "done" =>
          /\ stats.rule_decisions = Len(PERSONAS) * Cardinality(BarDates)
          /\ Len(daily_results) = Cardinality(BarDates)
          /\ {daily_results[k].date : k \in 1..Len(daily_results)} = BarDates

\* a finished run of all-timeouts over a range with one date missing
C6_Witness ==
    /\ pc = "done"
    /\ use_ai
    /\ Cardinality(BarDates) = total_days - 1
    /\ stats.timeout_fallbacks = Len(PERSONAS) * (total_days - 1)
    /\ stats.ai_decisions = 0

\* C7: a date of the range with no price bar is skipped: no portfolio gets
\* a trade record or a snapshot for it, no DailyResult is appended, and the
\* run goes on; so the daily results are as many as the dates with a bar
\* handled so far, and after the run as many as the dates with a bar.
C7_MissingDateIsSkipped ==
    /\ \A k \in 1..Len(daily_results) : daily_results[k].date \in BarDates
    /\ \A p \in PersonaIds :
          /\ \A k \in 1..Len(portfolios[p].trades) :
                portfolios[p].trades[k].date \in BarDates
          /\ \A k \in 1..Len(portfolios[p].snapshots) :
                portfolios[p].snapshots[k].date \in BarDates
    /\ pc \in {"loop", "done"} =>
          Len(daily_results) = Cardinality({d \in BarDates : d < current_date})
    /\ pc = "done" =>
          /\ Len(daily_results) = Cardinality(BarDates)
          /\ day_count = total_days

\* a finished run over a range whose middle date has no bar
C7_Witness ==
    /\ pc = "done"
    /\ \E d \in Dates : start_date < d /\ d < end_date /\ BarDates = Dates \ {d}
    /\ Len(daily_results) = total_days - 1
    /\ day_count = total_days

\* C8: the day loop terminates: from start_date it handles every date up to
\* end_date once, in increasing order, each date skipped or simulated, and
\* it reaches its terminal state only after the last date of the range.
C8_LoopHandlesEveryDateOnce ==
    /\ [][current_date' = current_date \/ current_date' = current_date + 1]_vars
    /\ [](day_count = (current_date - start_date)
                      + (IF pc \in {"persona", "end_day"} THEN 1 ELSE 0))
    /\ [](\A k \in 1..Len(daily_results) :
             /\ daily_results[k].date < current_date
             /\ k > 1 => daily_results[k - 1].date < daily_results[k].date)
    /\ [](pc = "done" =>
             /\ current_date = end_date + 1
             /\ day_count = total_days
             /\ Len(daily_results) + Cardinality(Dates \ BarDates) = total_days)
    /\ <>(pc = "done")

\* a finished rule-mode run that skipped the first date and simulated the rest
C8_Witness ==
    /\ pc = "done"
    /\ ~use_ai
    /\ current_date = end_date + 1
    /\ BarDates = Dates \ {start_date}
    /\ daily_results # <<>>
    /\ daily_results[1].date = start_date + 1
    /\ Last(daily_results).date = end_date

(***************************************************************************)
(* Properties of the trade log and of the executor.                        *)
(***************************************************************************)
\* the position of a persona in the loop over the personas
Pos(p) == CHOOSE i \in 1..Len(PERSONAS) : PERSONAS[i] = p

\* the persona has had its turn on the date in hand
Settled(p) == pc \in {"persona", "await", "aborted", "end_day"} /\ Pos(p) < idx

\* the reason tags of a trade downgraded to HOLD
BuyTag == "[buy amount too small]"
SellTag == "[sell quantity too small]"
Downgraded(trade) ==
    trade.action = "HOLD" /\ trade.reason # <<>> /\ trade.reason[1] \in {BuyTag, SellTag}

\* C9: at the end of every simulated date each persona's portfolio has
\* gained exactly one trade record and one snapshot for that date, whatever
\* the decision was; so each persona's trade log and snapshots have one
\* entry per DailyResult, in date order, and one more for the date in hand
\* once the persona has had its turn.
C9_OneRecordPerSimulatedDate ==
    \A p \in PersonaIds :
        LET pf == portfolios[p]
            n == Len(daily_results) + (IF Settled(p) THEN 1 ELSE 0)
        IN  /\ Len(pf.trades) = n
            /\ Len(pf.snapshots) = n
            /\ \A k \in 1..Len(daily_results) :
                  /\ pf.trades[k].date = daily_results[k].date
                  /\ pf.snapshots[k].date = daily_results[k].date
                  /\ k > 1 => pf.trades[k - 1].date < pf.trades[k].date
            /\ Settled(p) =>
                  /\ Last(pf.trades).date = current_date
                  /\ Last(pf.snapshots).date = current_date

\* a finished run over the full range whose logs hold a BUY, a SELL, a
\* plain HOLD and a trade downgraded to HOLD
C9_Witness ==
    /\ pc = "done"
    /\ Len(daily_results) = total_days
    /\ \E p \in PersonaIds : \E k \in 1..Len(portfolios[p].trades) :
          portfolios[p].trades[k].action = "BUY"
    /\ \E p \in PersonaIds : \E k \in 1..Len(portfolios[p].trades) :
          portfolios[p].trades[k].action = "SELL"
    /\ \E p \in PersonaIds : \E k \in 1..Len(portfolios[p].trades) :
          portfolios[p].trades[k].action = "HOLD" /\ ~Downgraded(portfolios[p].trades[k])
    /\ \E p \in PersonaIds : \E k \in 1..Len(portfolios[p].trades) :
          Downgraded(portfolios[p].trades[k])

\* the decision asks for a trade below the executor's minimum
BelowMinimum(decision, pf) ==
    \/ /\ decision.action = "BUY"
       /\ PctOf(pf.usd_balance, decision.amount_pct) < MIN_BUY_USD
    \/ /\ decision.action = "SELL"
       /\ PctOf(pf.btc_position.quantity, decision.amount_pct) < MIN_SELL_BTC

\* C10: the executor never rejects a trade below the minimum: a BUY whose
\* amount (cash * amount_pct / 100) is under 10 USD, or a SELL whose
\* quantity (held quantity * amount_pct / 100) is under 0.0001 BTC, is
\* executed as a HOLD: cash, quantity and average cost stay as they were
\* and exactly one HOLD record is appended, its reason tagged.
C10_BelowMinimumBecomesHold ==
    [][\A p \in PersonaIds :
          (portfolios'[p] # portfolios[p] /\ BelowMinimum(decisions'[p], portfolios[p])) =>
             /\ portfolios'[p].usd_balance = portfolios[p].usd_balance
             /\ portfolios'[p].btc_position = portfolios[p].btc_position
             /\ Len(portfolios'[p].trades) = Len(portfolios[p].trades) + 1
             /\ SubSeq(portfolios'[p].trades, 1, Len(portfolios[p].trades))
                   = portfolios[p].trades
             /\ Last(portfolios'[p].trades).action = "HOLD"
             /\ Last(portfolios'[p].trades).quantity = 0
             /\ Last(portfolios'[p].trades).usd_amount = 0
             /\ Last(portfolios'[p].trades).reason
                   = <<IF decisions'[p].action = "BUY" THEN BuyTag ELSE SellTag>>
                     \o decisions'[p].reason]_vars

\* a SELL that came to less than 0.0001 BTC of a position that is held,
\* executed as a tagged HOLD with the position intact
C10_Witness ==
    \E p \in PersonaIds :
        /\ Settled(p)
        /\ decisions[p].action = "SELL"
        /\ decisions[p].amount_pct > 0
        /\ portfolios[p].btc_position.quantity > 0
        /\ Last(portfolios[p].trades).action = "HOLD"
        /\ Last(portfolios[p].trades).reason[1] = SellTag
        /\ Last(portfolios[p].snapshots).btc_quantity = portfolios[p].btc_position.quantity

(***************************************************************************)
(* Properties of single calls on the ledger: in every reachable state of   *)
(* the portfolio, what a call with each of the requests would do.          *)
(***************************************************************************)
Book == portfolios["book"]
Min(a, b) == IF a < b THEN a ELSE b

\* C11: a buy that asks for more than the positive cash balance is not
\* rejected: it spends exactly the whole balance, leaves the balance at 0
\* and adds balance / price to the position.
C11_BuyAboveBalanceSpendsAll ==
    \A price \in LedgerPrices, usd_amount \in LedgerUsd :
        (usd_amount > Book.usd_balance /\ Book.usd_balance > 0) =>
            LET r == Portfolio_buy(Book, ledger_calls + 1, price, usd_amount, <<"ledger">>)
            IN  /\ r.ok
                /\ r.pf.usd_balance = 0
                /\ r.pf.btc_position.quantity
                      = Book.btc_position.quantity + Book.usd_balance \div price
                /\ Len(r.pf.trades) = Len(Book.trades) + 1
                /\ Last(r.pf.trades).action = "BUY"
                /\ Last(r.pf.trades).usd_amount = Book.usd_balance

\* a partly invested portfolio whose second buy asked for more than was
\* left and spent what was left
C11_Witness ==
    /\ pc = "ledger"
    /\ Len(Book.trades) = 2
    /\ Book.trades[1].action = "BUY"
    /\ Book.trades[1].usd_amount = 400 * UsdUnits
    /\ Book.trades[2].action = "BUY"
    /\ Book.trades[2].usd_amount = initial_capital - 400 * UsdUnits
    /\ Book.usd_balance = 0
    /\ Book.btc_position.quantity = Book.trades[1].quantity + Book.trades[2].quantity

\* C12: a sell that asks for more than the held quantity sells exactly the
\* held quantity: the position is then 0 and cash has grown by held
\* quantity * price.
C12_SellAboveHoldingSellsAll ==
    \A price \in LedgerPrices, btc_quantity \in LedgerBtc :
        btc_quantity > Book.btc_position.quantity =>
            LET r == Portfolio_sell(Book, ledger_calls + 1, price, btc_quantity, <<"ledger">>)
                held == Book.btc_position.quantity
            IN  /\ r.pf.btc_position.quantity = 0
                /\ r.pf.usd_balance = Book.usd_balance + held * price
                /\ held > 0 =>
                      /\ r.ok
                      /\ Len(r.pf.trades) = Len(Book.trades) + 1
                      /\ Last(r.pf.trades).action = "SELL"
                      /\ Last(r.pf.trades).quantity = held

\* a position bought low and sold out high by a sell that asked for more
\* than was held
C12_Witness ==
    /\ pc = "ledger"
    /\ Len(Book.trades) = 2
    /\ Book.trades[1].action = "BUY"
    /\ Book.trades[1].price = LowPrice
    /\ Book.trades[1].quantity < BtcUnits
    /\ Book.trades[2].action = "SELL"
    /\ Book.trades[2].price = HighPrice
    /\ Book.trades[2].quantity = Book.trades[1].quantity
    /\ Book.btc_position.quantity = 0
    /\ Book.usd_balance > initial_capital

\* C13: after a successful buy of amount a at price p on a position
\* (old_qty, old_avg), the quantity is old_qty + a/p and the average cost is
\* (old_qty * old_avg + (a/p) * p) / (old_qty + a/p).
C13_BuyAveragesCost ==
    \A price \in LedgerPrices, usd_amount \in LedgerUsd :
        LET r == Portfolio_buy(Book, ledger_calls + 1, price, usd_amount, <<"ledger">>)
            a == Min(usd_amount, Book.usd_balance)
            old_qty == Book.btc_position.quantity
            old_avg == Book.btc_position.avg_cost
            bought == a \div price
        IN  r.ok =>
               /\ r.pf.btc_position.quantity = old_qty + bought
               /\ r.pf.btc_position.avg_cost
                     = (old_qty * old_avg + bought * price) \div (old_qty + bought)

\* two buys of the same amount, at the low and at the high price: the
\* average cost lies strictly between the two prices
C13_Witness ==
    /\ pc = "ledger"
    /\ Len(Book.trades) = 2
    /\ Book.trades[1].action = "BUY"
    /\ Book.trades[2].action = "BUY"
    /\ Book.trades[1].price # Book.trades[2].price
    /\ Book.btc_position.avg_cost > LowPrice
    /\ Book.btc_position.avg_cost < HighPrice
    /\ Book.btc_position.quantity = Book.trades[1].quantity + Book.trades[2].quantity

\* C14: a sell that leaves a positive quantity leaves the average cost as
\* it was; a sell that brings the quantity to 0 resets quantity and average
\* cost to 0.
C14_SellKeepsOrResetsCost ==
    \A price \in LedgerPrices, btc_quantity \in LedgerBtc :
        LET r == Portfolio_sell(Book, ledger_calls + 1, price, btc_quantity, <<"ledger">>)
            sold == Min(btc_quantity, Book.btc_position.quantity)
        IN  r.ok =>
               IF Book.btc_position.quantity - sold > 0
               THEN /\ r.pf.btc_position.quantity = Book.btc_position.quantity - sold
                    /\ r.pf.btc_position.avg_cost = Book.btc_position.avg_cost
               ELSE /\ r.pf.btc_position.quantity = 0
                    /\ r.pf.btc_position.avg_cost = 0

\* a position bought low, sold in part at the high price with its average
\* cost kept, then sold out with the cost reset
C14_Witness ==
    /\ pc = "ledger"
    /\ Len(Book.trades) = 3
    /\ Book.trades[1].action = "BUY"
    /\ Book.trades[1].price = LowPrice
    /\ Book.trades[2].action = "SELL"
    /\ Book.trades[2].price = HighPrice
    /\ Book.trades[2].quantity < Book.trades[1].quantity
    /\ Book.trades[3].action = "SELL"
    /\ Book.trades[3].quantity = Book.trades[1].quantity - Book.trades[2].quantity
    /\ Book.btc_position.quantity = 0
    /\ Book.btc_position.avg_cost = 0

(***************************************************************************)
(* The parser used on its own: parse_decision applied to one text.  The    *)
(* texts are the JSON objects made of an action, an amount_pct and a       *)
(* confidence drawn from the values below (each may be absent), texts      *)
(* that hold no JSON object, and the texts of the AI backend.              *)
(***************************************************************************)
\* the JSON text of a value
Render(v) ==
    CASE v.t = "num"  -> ToString(v.n)
      [] v.t = "str"  -> "\"" \o v.s \o "\""
      [] v.t = "null" -> "null"
      [] v.t = "bool" -> "true"
      [] v.t = "nan"  -> "NaN"
      [] v.t = "list" -> "[1]"
      [] OTHER        -> ""

\* the members of an object that has the key, and their text
Member(key, v) ==
    IF v.t = "absent" THEN <<>> ELSE <<"\"" \o key \o "\": " \o Render(v)>>
ObjectRaw(action, amount_pct, confidence) ==
    LET ms == Member("action", action) \o Member("amount_pct", amount_pct)
              \o Member("confidence", confidence)
        body == CASE Len(ms) = 0 -> ""
                  [] Len(ms) = 1 -> ms[1]
                  [] Len(ms) = 2 -> ms[1] \o ", " \o ms[2]
                  [] OTHER -> ms[1] \o ", " \o ms[2] \o ", " \o ms[3]
    IN  "{" \o body \o "}"

\* the object as parse_decision reads it: the pattern matches when the
\* action key is there; the buy and sell words come with the action
ObjectText(action, amount_pct, confidence) ==
    LET d == JDict(action, amount_pct, JAbsent, confidence)
        has == action.t # "absent"
    IN  Text(ObjectRaw(action, amount_pct, confidence), has,
             IF has THEN d ELSE JBad, d,
             action.t = "str" /\ upper(action.s) = "BUY",
             action.t = "str" /\ upper(action.s) = "SELL")

ActionValues ==
    {JAbsent, JStr("BUY"), JStr("buy"), JStr("SELL"), JStr("Hold"), JStr("LONG"),
     JNum(5), JNull}
AmountValues ==
    {JAbsent, JNum(-5), JNum(0), JNum(1), JNum(50), JNum(150), JStr("50"),
     JStr("lots"), JNull, JNaN, JTrue, JList}
ConfidenceValues ==
    {JAbsent, JNum(80), JNum(-3), JNum(250), JStr("high"), JNull}

ObjectTexts ==
    {ObjectText(a, m, c) : a \in ActionValues, m \in AmountValues,
                           c \in ConfidenceValues}

\* texts that hold no JSON object with an action key
FreeTexts ==
    { Text("", FALSE, JBad, JBad, FALSE, FALSE),
      Text("I would buy more", FALSE, JBad, JBad, TRUE, FALSE),
      Text("Time to SELL everything", FALSE, JBad, JBad, FALSE, TRUE),
      Text("buy low, sell high", FALSE, JBad, JBad, TRUE, TRUE),
      Text("wait and see", FALSE, JBad, JBad, FALSE, FALSE),
      Text("{\"action\": BUY}", TRUE, JBad, JBad, TRUE, FALSE),
      Text("[1, 2]", FALSE, JBad, JOther, FALSE, FALSE),
      Text("123", FALSE, JBad, JOther, FALSE, FALSE),
      Text("null", FALSE, JBad, JOther, FALSE, FALSE),
      Text("\"sell\"", FALSE, JBad, JOther, FALSE, TRUE),
      Text(LongText, FALSE, JBad, JBad, TRUE, FALSE) }

ParseTexts == ObjectTexts \cup FreeTexts \cup AiTexts

InitParse ==
    /\ entry = "none"
    /\ InitData(FALSE, MarketData("calm", 0))
    /\ pc = "parse"
    /\ current_date = start_date
    /\ day_count = 0
    /\ idx = 0
    /\ context = NoContext
    /\ request = NoRequest
    /\ response \in ParseTexts
    /\ decisions = NoDecisions
    /\ portfolio_values = [p \in PersonaIds |-> 0]
    /\ portfolios = [p \in PersonaIds |-> NewPortfolio]
    /\ daily_results = <<>>
    /\ stats = NoStats
    /\ exc = "none"
    /\ ledger_calls = 0
    /\ returned = NoReturn

\* trade_executor.parse_decision(response)
ParseCall ==
    /\ pc = "parse"
    /\ \E parsed \in {parse_decision(response)} :
          returned' = [call |-> "parse_decision", raised |-> parsed.raised,
                       decision |-> parsed.decision]
    /\ pc' = "parsed"
    /\ UNCHANGED <<entry, use_ai, price_data, history_bars, fear_greed, news, tech_engine,
                   current_date, day_count, idx, context, request, response,
                   decisions, portfolio_values, portfolios, daily_results, stats,
                   exc, ledger_calls>>

NextParse == ParseCall

SpecParse == InitParse /\ [][NextParse]_vars

(***************************************************************************)
(* Properties of the parser on its own.                                    *)
(***************************************************************************)
\* what parse_decision reads the fields from
ParsedData == IF response.found THEN response.group ELSE response.whole

\* the text carries an object whose action is a string or is missing
HasObject ==
    ParsedData.k = "dict" /\ ParsedData.action.t \in {"str", "absent"}

\* C15: every decision parse_decision returns has amount_pct and confidence
\* in [0,100] whatever the text carries: a negative number becomes 0, a
\* number over 100 becomes 100, and a missing or non-numeric value falls
\* back to a default, so that a decision is returned.
C15_NumbersAreClamped ==
    (pc = "parsed" /\ HasObject) =>
        /\ returned.raised = "none"
        /\ returned.decision.amount_pct \in 0..100
        /\ returned.decision.confidence \in 0..100
        /\ (ParsedData.amount_pct.t = "num" /\ ParsedData.confidence.t = "num") =>
              /\ returned.decision.amount_pct = Clamp100(ParsedData.amount_pct.n)
              /\ returned.decision.confidence = Clamp100(ParsedData.confidence.n)

\* no object with an action key can be taken from the text
NoActionObject ==
    /\ ~response.found \/ response.group.k = "bad"
    /\ ~(response.whole.k = "dict" /\ response.whole.action.t # "absent")

\* C16: when no object with an action key can be taken from the text, the
\* raw text decides: a buy word gives BUY 10% with confidence 0, a sell
\* word gives SELL 10% with confidence 0, neither gives HOLD 0% with
\* confidence 0, and the reason holds the raw text.
C16_WordFallback ==
    (pc = "parsed" /\ NoActionObject) =>
        /\ returned.raised = "none"
        /\ returned.decision.confidence = 0
        /\ returned.decision.action =
              (IF response.buy THEN "BUY" ELSE IF response.sell THEN "SELL" ELSE "HOLD")
        /\ returned.decision.amount_pct =
              (IF response.buy \/ response.sell THEN 10 ELSE 0)
        /\ (response.buy \/ response.sell) =>
              returned.decision.reason = <<"[parse failed]", response.raw>>

(***************************************************************************)
(* Properties of the executor on one portfolio.                            *)
(***************************************************************************)
\* execute carries out the decision's own action: it logs one record, and
\* the record is of the action the decision names
CarriesOut(d, pf, btc_price) ==
    LET r == execute(d, pf, 0, btc_price)
    IN  /\ r.ok
        /\ Len(r.pf.trades) = Len(pf.trades) + 1
        /\ Last(r.pf.trades).action = d.action

\* C17: validate_decision mirrors execute: for a decision with amount_pct
\* in [0,100], on any portfolio state, it reports valid exactly when execute
\* would carry out the decision's own action rather than a HOLD in its place,
\* and the validate_decision call leaves the portfolio as it was.
C17_ValidateMirrorsExecute ==
    [][ returned'.call = "validate_decision" /\ returned' # returned =>
          /\ portfolios' = portfolios
          /\ returned'.valid =
                CarriesOut(returned'.decision, Book, returned'.btc_price) ]_vars

\* a sell validated as valid on a portfolio that holds a position, and a
\* trade log that shows the earlier purchase
C17_Witness ==
    /\ returned.call = "validate_decision"
    /\ returned.decision.action = "SELL"
    /\ returned.valid
    /\ Book.btc_position.quantity > 0
    /\ Len(Book.trades) > 0

(***************************************************************************)
(* Properties of a persona on its own: what its outputs depend on.         *)
(***************************************************************************)
\* the contexts that differ from c only in fields governed by a flag that
\* is false for the persona (c itself is one of them)
Variants(id, c) ==
    LET config == PersonaConfig(id)
        own_t == Indicators(c.rsi, c.rsi_signal, c.macd_signal, c.ma_50, c.ma_200,
                            c.bb_position, c.overall_technical)
        own_f == [value |-> c.fear_greed_value, label |-> c.fear_greed_label]
    IN  {[c EXCEPT !.rsi = t.rsi, !.rsi_signal = t.rsi_signal,
                   !.macd_signal = t.macd_signal, !.ma_50 = t.ma_50,
                   !.ma_200 = t.ma_200, !.bb_position = t.bb_position,
                   !.overall_technical = t.overall_signal,
                   !.fear_greed_value = f.value, !.fear_greed_label = f.label,
                   !.news_headlines = n] :
            t \in IF config.use_technical THEN {own_t} ELSE TechValues,
            f \in IF config.use_fear_greed THEN {own_f} ELSE FearGreedValues,
            n \in IF config.use_news THEN {c.news_headlines} ELSE NewsValues}

\* C18: a persona's rule-based decision depends only on the context fields
\* its flags permit: every context that differs from the one decided on only
\* in headlines (Guardian, Quant), in technical fields (Degen) or in the
\* fear-greed fields (Quant) gives the same decision, and the call leaves
\* the portfolios and the statistics as they were.
C18_RuleDecisionReadsPermittedFields ==
    response # NoText =>
        /\ \A c2 \in Variants(request.persona, context) :
              make_decision_sync(request.persona, c2) = response
        /\ portfolios = [p \in PersonaIds |-> NewPortfolio]
        /\ stats = NoStats

\* the Guardian has decided to hold on a context with bearish headlines,
\* where the Strategist's rules would sell
C18_Witness ==
    /\ response # NoText
    /\ request.persona = "guardian"
    /\ context.news_headlines = <<"SEC lawsuit follows exchange hack">>
    /\ context.btc_quantity > 0
    /\ response.group.action.s = "HOLD"
    /\ Strategist_make_decision_sync(context).group.action.s = "SELL"

\* C19: the prompt a persona renders, with build_decision_prompt and with
\* build_decision_prompt_compact, depends only on the permitted context
\* subset: for a persona whose use_technical, use_fear_greed or use_news flag
\* is false, every context that differs only in the fields that flag governs
\* gives the same prompt.
C19_PromptReadsPermittedFields ==
    /\ returned.call = "build_decision_prompt" =>
          \A c2 \in Variants(request.persona, context) :
              build_decision_prompt(request.persona, c2) = returned.prompt
    /\ returned.call = "build_decision_prompt_compact" =>
          \A c2 \in Variants(request.persona, context) :
              build_decision_prompt_compact(request.persona, c2) = returned.prompt

(***************************************************************************)
(* Ownership of the portfolios in a run.                                   *)
(***************************************************************************)
\* C20: processing one persona on a date changes only that persona's own
\* portfolio: a step changes a portfolio (balance, position, trade records,
\* snapshots) only if it is the turn of that portfolio's persona, and the
\* context built for a persona carries the figures of its own portfolio and
\* of no other.
C20_OnlyOwnPortfolioChanges ==
    [][ /\ \A p \in PersonaIds :
              portfolios'[p] # portfolios[p] =>
                  pc \in {"persona", "await"} /\ p = PERSONAS[idx]
        /\ pc = "persona" =>
              LET own == portfolios[PERSONAS[idx]]
                  close == get_price_for_date(current_date).close
              IN  /\ context'.usd_balance = own.usd_balance
                  /\ context'.btc_quantity = own.btc_position.quantity
                  /\ context'.portfolio_value = get_total_value(own, close)
                  /\ context'.return_pct = get_return_pct(own, close) ]_vars

\* the third persona's turn has come on a date on which the first has
\* traded and the second has traded differently
C20_Witness ==
    /\ pc = "persona"
    /\ idx = 3
    /\ Len(portfolios[PERSONAS[1]].trades) > Len(portfolios[PERSONAS[3]].trades)
    /\ portfolios[PERSONAS[1]].usd_balance # portfolios[PERSONAS[2]].usd_balance
    /\ portfolios[PERSONAS[1]].usd_balance < initial_capital
    /\ context.usd_balance = portfolios[PERSONAS[2]].usd_balance

(***************************************************************************)
(* The AI path of a run.                                                   *)
(***************************************************************************)
\* C21: for each persona and each simulated date at most one AI request is
\* issued: a request is issued only for the persona in turn, which has no
\* decision on that date yet, and the step that ends the request (reply,
\* timeout or error) records that persona's decision and passes the turn on
\* (or leaves the run); after a timeout or error the decision is the
\* persona's rule-based one.
C21_OneAiRequestPerPersonaDay ==
    [][ /\ (pc' = "await" /\ pc # "await") =>
              /\ pc = "persona"
              /\ request' = [persona |-> PERSONAS[idx], date |-> current_date]
              /\ decisions[PERSONAS[idx]] = NoDecision
        /\ pc = "await" =>
              /\ pc' # "await"
              /\ request' = NoRequest
              /\ stats'.rule_decisions > stats.rule_decisions =>
                    response' = make_decision_sync(request.persona, context)
              /\ \/ pc' = "aborted"
                 \/ /\ idx' = idx + 1
                    /\ decisions'[request.persona] # NoDecision
                    /\ pc' \in {"persona", "end_day"} ]_vars

\* a timeout has been answered by the rules for the first persona, and the
\* request now pending on the same date is the second persona's
C21_Witness ==
    /\ pc = "await"
    /\ stats.timeout_fallbacks = 1
    /\ day_count = 1
    /\ request.persona = PERSONAS[2]
    /\ decisions[PERSONAS[1]] # NoDecision

(***************************************************************************)
(* What an executed decision does to the balance and the position.         *)
(***************************************************************************)
\* C22: executing a BUY of amount_pct p, with p% of the cash at least $10,
\* at price P moves exactly p% of the cash balance into the position: the
\* cash falls by cash * p / 100 and the quantity grows by that amount
\* divided by P.
C22_BuyMovesPercentOfCash ==
    \A d \in ExecutorDecisions, price \in LedgerPrices :
        LET usd_amount == PctOf(Book.usd_balance, d.amount_pct)
            after == execute(d, Book, 0, price)
        IN  (d.action = "BUY" /\ usd_amount >= MIN_BUY_USD) =>
               /\ after.ok
               /\ after.pf.usd_balance = Book.usd_balance - usd_amount
               /\ after.pf.btc_position.quantity =
                     Book.btc_position.quantity + usd_amount \div price
               /\ Last(after.pf.trades).action = "BUY"
               /\ Last(after.pf.trades).usd_amount = usd_amount

\* the spec's scenario at the model's scale: from the initial capital a BUY
\* of 50% at the low price leaves half the capital in cash, and a second
\* BUY on a portfolio that holds a position has been executed after it
C22_Witness ==
    /\ returned.call = "execute"
    /\ Len(Book.trades) = 2
    /\ Book.trades[1].action = "BUY"
    /\ Book.trades[1].usd_amount = initial_capital \div 2
    /\ Book.trades[1].quantity = (initial_capital \div 2) \div LowPrice
    /\ Book.trades[2].action = "BUY"
    /\ Book.usd_balance = initial_capital \div 4

\* the loaded prices are the same on every date
FlatPrice ==
    \A d \in Dates : price_data[d].has => price_data[d] = Bar(HighPrice, HighPrice)

\* the purchases in a portfolio's trade log
Buys(pf) == Cardinality({i \in 1..Len(pf.trades) : pf.trades[i].action = "BUY"})

\* C23: trades are value-neutral at the execution price: a buy, sell or hold
\* executed at price P leaves get_total_value(P) unchanged, so under a
\* constant price every portfolio's total value stays equal to its initial
\* capital after any sequence of decisions.  Quantities are whole units of
\* 10^-6 BTC here, so a buy may leave less than the worth of one unit
\* unconverted; sells and holds are exact.
C23_TradesAreValueNeutral ==
    \A p \in PersonaIds :
        LET pf == portfolios[p]
        IN  /\ \A d \in ExecutorDecisions, price \in LedgerPrices :
                  LET after == execute(d, pf, 0, price).pf
                      lost == get_total_value(pf, price) - get_total_value(after, price)
                  IN  IF Last(after.trades).action = "BUY"
                      THEN lost \in 0..(price - 1)
                      ELSE lost = 0
            /\ FlatPrice =>
                  initial_capital - get_total_value(pf, HighPrice)
                      \in 0..(Buys(pf) * (HighPrice - 1))

\* under a constant price a portfolio has bought on two dates and another
\* has bought and sold, and the run is over
C23_Witness ==
    /\ FlatPrice
    /\ pc = "done"
    /\ \E p \in PersonaIds : Buys(portfolios[p]) >= 2
    /\ \E p \in PersonaIds :
          /\ Buys(portfolios[p]) >= 1
          /\ \E i \in 1..Len(portfolios[p].trades) :
                portfolios[p].trades[i].action = "SELL"

(***************************************************************************)
(* The ranking of the performance summary.                                 *)
(***************************************************************************)
\* C24: the performance summary ranks the personas by final return in
\* descending order, personas of equal return in declaration order, and
\* marks each persona against the buy-and-hold return from the price of the
\* first simulated date to the price of the last.
C24_SummaryIsRanked ==
    pc = "reported" =>
        LET rows == returned.rows
            first_price == daily_results[1].btc_price
            last_price == daily_results[Len(daily_results)].btc_price
            \* what the capital is worth when held in BTC from the first
            \* price to the last, rounded down
            held == (initial_capital \div first_price) * last_price
                       + ((initial_capital % first_price) * last_price)
                            \div first_price
        IN  /\ Len(rows) = Len(PERSONAS)
            /\ {rows[i].id : i \in 1..Len(rows)} = PersonaIds
            /\ \A i \in 1..Len(rows) :
                  /\ rows[i].final_value = portfolio_values[rows[i].id]
                  /\ rows[i].return_pct * 100
                        = PercentScale * 100 * (rows[i].final_value \div PercentScale - 100)
                          + 100 * (rows[i].final_value % PercentScale)
                  /\ rows[i].beat_btc = (rows[i].final_value > held)
            /\ \A i \in 1..Len(rows), j \in 1..Len(rows) :
                  i < j =>
                     \/ rows[i].final_value > rows[j].final_value
                     \/ /\ rows[i].final_value = rows[j].final_value
                        /\ Pos(rows[i].id) < Pos(rows[j].id)

\* a summary in which the last declared persona leads by less than half a
\* percent, two personas tie behind it with the capital untouched, and only
\* the leader beats a flat price
C24_Witness ==
    /\ pc = "reported"
    /\ returned.rows[1].id = PERSONAS[4]
    /\ returned.rows[1].final_value = initial_capital + 4 * UsdUnits
    /\ returned.rows[2].return_pct = returned.rows[3].return_pct
    /\ returned.rows[2].final_value = initial_capital
    /\ returned.rows[1].beat_btc
    /\ ~returned.rows[2].beat_btc
    /\ daily_results[2].btc_price = daily_results[1].btc_price

(***************************************************************************)
(* Reproducibility of a rule-only run.                                     *)
(***************************************************************************)
\* what the loaded data alone determine: the decision of a persona on a
\* date and its portfolio once the dates up to d are processed
RECURSIVE PortfolioAfter(_, _)
DecisionOn(id, d) ==
    LET bar == price_data[d]
        c == build_context_for_persona(id, d, bar, calculate_technical_indicators(d),
                                       PortfolioAfter(id, d - 1))
    IN  parse_decision(make_decision_sync(id, c)).decision
PortfolioAfter(id, d) ==
    IF d < start_date THEN NewPortfolio
    ELSE IF ~price_data[d].has THEN PortfolioAfter(id, d - 1)
    ELSE Portfolio_take_snapshot(
             execute(DecisionOn(id, d), PortfolioAfter(id, d - 1), d,
                     price_data[d].close).pf,
             d, price_data[d].close)

\* the DailyResult sequence the loaded data determine for the dates up to d
RECURSIVE ResultsAfter(_)
ResultsAfter(d) ==
    IF d < start_date THEN <<>>
    ELSE IF ~price_data[d].has THEN ResultsAfter(d - 1)
    ELSE Append(ResultsAfter(d - 1),
                DailyResult(d, price_data[d],
                    [p \in PersonaIds |-> to_dict(DecisionOn(p, d))],
                    [p \in PersonaIds |->
                        get_total_value(PortfolioAfter(p, d), price_data[d].close)]))

\* C25: within each date the personas are processed one at a time in the
\* declaration order, and a rule-only run is reproducible: the DailyResult
\* sequence and every trade log are determined by the loaded price, news
\* and sentiment data, so two runs over the same data and config give the
\* same results and the same trade logs.
C25_RuleRunIsReproducible ==
    [][ /\ \A p \in PersonaIds :
              (decisions'[p] # decisions[p] /\ pc = "persona") =>
                  /\ p = PERSONAS[idx]
                  /\ \A q \in PersonaIds :
                        (decisions[q] # NoDecision) <=> (Pos(q) < Pos(p))
        /\ \A p \in PersonaIds :
              portfolios'[p] =
                  PortfolioAfter(p, IF pc' = "end_day" \/ (pc' = "persona" /\ Pos(p) < idx')
                                    THEN current_date' ELSE current_date' - 1)
        /\ daily_results' = ResultsAfter(current_date' - 1) ]_vars

\* a rule-only run over the swinging market is over, with a result for
\* each of its dates and personas whose trade logs differ
C25_Witness ==
    /\ pc = "done"
    /\ ~use_ai
    /\ Len(daily_results) = MaxDays
    /\ \E p \in PersonaIds, q \in PersonaIds :
          /\ portfolios[p].usd_balance < portfolios[q].usd_balance
          /\ portfolios[q].usd_balance < initial_capital

(***************************************************************************)
(* What a context is built from.                                           *)
(***************************************************************************)
\* the loaded bars dated on or before d
KnownBars(d) == history_bars + Cardinality({x \in Dates : x <= d /\ price_data[x].has})

\* every technical field of a context is absent
NoTechnical(c) ==
    /\ c.rsi = None /\ c.rsi_signal = NoneStr /\ c.macd_signal = NoneStr
    /\ c.ma_50 = None /\ c.ma_200 = None /\ c.bb_position = NoneStr
    /\ c.overall_technical = NoneStr

\* C26: technical fields are supplied only when at least 50 price bars are
\* available for the date: with fewer than 50 bars dated up to it, every
\* technical field of the context built for any persona is absent.
C26_NoTechnicalBelowFiftyBars ==
    [][ pc = "persona" =>
          (KnownBars(current_date) < 50 => NoTechnical(context')) ]_vars

\* in the young market the second date has 50 bars: the Guardian's context
\* for it carries the indicators, after a first date with 49 bars
C26_Witness ==
    /\ history_bars = 48
    /\ KnownBars(1) = 49
    /\ KnownBars(2) = 50
    /\ context.current_date = 2
    /\ idx = 2
    /\ pc = "persona"
    /\ context.rsi # None
    /\ context.ma_200 # None

\* the indicators that the bars dated on or before d determine
IndicatorsKnownOn(d) == IF KnownBars(d) < 50 THEN NoIndicators ELSE tech_engine[d]

\* C30: no look-ahead: the indicators and the context used for a persona's
\* decision on date d are computed only from the bars dated on or before d,
\* and the decision is the one that context gives, even when the loaded
\* price data hold later bars.
C30_NoLookAhead ==
    [][ pc = "persona" =>
          \E id \in {PERSONAS[idx]} :
          \E c \in {build_context_for_persona(id, current_date, price_data[current_date],
                                              IndicatorsKnownOn(current_date),
                                              portfolios[id])} :
             /\ context' = c
             /\ context'.current_date = current_date
             /\ response' = make_decision_sync(id, c)
             /\ pc' # "aborted" =>
                   decisions'[id] = parse_decision(response').decision ]_vars

\* on the first date of the young market 49 bars are known and 51 are
\* loaded: the Guardian's context carries no indicator
C30_Witness ==
    /\ history_bars = 48
    /\ \A x \in Dates : price_data[x].has
    /\ KnownBars(1) = 49
    /\ context.current_date = 1
    /\ current_date = 1
    /\ idx = 2
    /\ decisions[PERSONAS[1]] # NoDecision
    /\ NoTechnical(context)

\* the fallback counters add up to the rule decisions
FallbacksAreRuleDecisions ==
    stats.rule_decisions = stats.timeout_fallbacks + stats.error_fallbacks

\* C29: in every reachable state rule_decisions equals timeout_fallbacks plus
\* error_fallbacks, and every completed decision call in AI mode has counted
\* in exactly one of ai_decisions and rule_decisions, so that after each
\* simulated date ai_decisions + rule_decisions is the number of personas
\* times the number of DailyResults.
C29_CountersPartitionDecisions ==
    /\ FallbacksAreRuleDecisions
    /\ (AiMode /\ pc \in {"loop", "done"}) =>
          stats.ai_decisions + stats.rule_decisions
             = Cardinality(PersonaIds) * Len(daily_results)

\* the value of the BTC position is within the persona's limit, in percent
\* of the portfolio's total value
WithinPositionLimit(id, pf, btc_price) ==
    pf.btc_position.quantity * btc_price * 100
        <= PersonaConfig(id).max_position_pct * get_total_value(pf, btc_price)

\* C27: a persona's configured position limit is respected throughout the
\* run: after any sequence of simulated days, at the price of the last day,
\* the value of a persona's BTC position is at most max_position_pct of its
\* total portfolio value (Guardian 50%, Strategist 70%, Quant 80%).
C27_PositionLimitRespected ==
    (pc \in {"loop", "done"} /\ daily_results # <<>>) =>
        \A id \in PersonaIds :
            WithinPositionLimit(id, portfolios[id],
                                daily_results[Len(daily_results)].btc_price)

\* Guardian's rule decision is BUY 25% whenever the Fear & Greed value is at
\* least lo and below 20, MA200 is known, the price is below it and the USD
\* balance exceeds 100
GuardianBuysQuarterFrom(lo) ==
    ( /\ response # NoText
      /\ request.persona = "guardian"
      /\ context.fear_greed_value # None
      /\ lo <= context.fear_greed_value
      /\ context.fear_greed_value < 20
      /\ context.ma_200 # None
      /\ context.btc_price < context.ma_200
      /\ context.usd_balance > RULE_MIN_USD )
    => /\ response.group.action = JStr("BUY")
       /\ response.group.amount_pct = JNum(25)

\* C28: Guardian's rule-based decision is BUY 25% for every context in which
\* the Fear & Greed value v satisfies 0 <= v < 20, MA200 is known, the price
\* is below MA200 and the USD balance exceeds 100.
C28_GuardianBuysOnExtremeFear == GuardianBuysQuarterFrom(0)

====
